---- MODULE Spec2Model ----
(***************************************************************************)
(* Time-entry tracking engine of plane-deploy: the timer controller        *)
(* (start / stop / get_active), direct entry CRUD and the feature toggle,  *)
(* modelled from apps/api/plane/app/views/time_entry.py and                *)
(* apps/api/plane/api/serializers/time_entry.py.                            *)
(* The AI chat relay (send-message, truncate) is modelled from             *)
(* apps/api/plane/app/views/ai_chat/base.py.                               *)
(*                                                                         *)
(* Instants are integers counted in clock ticks (TicksPerSecond ticks make *)
(* one second), so that the truncation of int(delta.total_seconds()) is    *)
(* visible.  An optional value is a sequence: <<>> is None, <<v>> is v.    *)
(* A request payload field is <<>> when the key is absent and <<v>> when   *)
(* it is present with value v (v itself may be None for nullable fields).  *)
(***************************************************************************)
EXTENDS Integers, Sequences, FiniteSets, TLC

\* ---------------------------------------------------------------- bounds
MaxConversations == 2
MaxMessages == 4
MaxChatOps == 3
MaxEntries == 2
MaxTime == 2
MaxOps == 3
TicksPerSecond == 2

\* ---------------------------------------------------------------- the world
Users == {"u1", "u2"}
Workspaces == {"w1", "w2"}
Projects == {"p1", "p2"}
Issues == {"i1", "i2"}
NoProject == "p0"
NoIssue == "i0"

\* Collaborator lookups: the project of an issue, the workspace of a project.
IssueProject(i) == IF i = "i1" THEN "p1" ELSE "p2"
ProjectWorkspace(p) == "w1"
IssueWorkspace(i) == ProjectWorkspace(IssueProject(i))

\* ProjectMember rows with role = ADMIN and is_active = True.
IsProjectAdmin(u, p) == <<u, p>> \in {<<"u2", "p1">>}

None == <<>>
Some(v) == <<v>>

VARIABLES
    entries,   \* the time_entries table, in creation order (index = primary key)
    enabled,   \* projects whose is_time_tracking_enabled is True
    now,       \* the wall clock, in ticks
    nops,      \* requests handled so far
    last,      \* the last request handled: operation and response
    req,       \* start requests in flight, each at its own step of the handler
    links,     \* the module_issues table: per issue, its modules in query order
    chat       \* the AI chat tables (conversations, messages) and the users with an LLM key

vars == <<entries, enabled, now, nops, last, req, links, chat>>

\* ---------------------------------------------------------------- helpers
Max(a, b) == IF a >= b THEN a ELSE b

\* int(x): truncation toward zero of a quotient.
TruncDiv(a, b) == IF a >= 0 THEN a \div b ELSE 0 - ((0 - a) \div b)

\* (mutant: the difference is not clamped at 0)
elapsed_secondsMutNoClamp(start, end) == TruncDiv(end - start, TicksPerSecond)
\* max(0, int(delta.total_seconds()))
elapsed_seconds(start, end) == Max(0, TruncDiv(end - start, TicksPerSecond))

Ids(es) == 1 .. Len(es)

\* TimeEntry.objects: the default manager leaves soft-deleted rows out.
Objects(es) == {id \in Ids(es) : ~es[id].deleted}

\* (mutant: the source is not looked at)
IsActiveMutAnySource(e) ==
    /\ e.started_at # None
    /\ e.ended_at = None
\* The derived is_active field of an entry.
IsActive(e) ==
    /\ e.started_at # None
    /\ e.ended_at = None
    /\ e.source = "timer"

\* filter(issue_id=i, user=u, started_at__isnull=False, ended_at__isnull=True)
ActiveTimerQuery(es, u, i) ==
    {id \in Objects(es) : es[id].issue = i /\ es[id].user = u
                          /\ es[id].started_at # None /\ es[id].ended_at = None}

\* filter(user=u, started_at__isnull=False, ended_at__isnull=True).exclude(issue_id=i)
OtherActiveTimers(es, u, i) ==
    {id \in Objects(es) : es[id].user = u /\ es[id].issue # i
                          /\ es[id].started_at # None /\ es[id].ended_at = None}

\* .first() under Meta.ordering = ("-created_at",): the most recently created row.
First(ids) == CHOOSE id \in ids : \A other \in ids : other <= id

\* timer.ended_at = now; duration_seconds computed when started_at is set; save().
Stopped(e, t) ==
    [e EXCEPT !.ended_at = Some(t),
              !.duration_seconds =
                  IF e.started_at # None THEN elapsed_seconds(e.started_at[1], t)
                  ELSE e.duration_seconds]

\* Issue.objects.get(id=issue_id, project_id=project_id, workspace__slug=slug)
IssueFound(slug, p, i) ==
    /\ i \in Issues
    /\ IssueProject(i) = p
    /\ IssueWorkspace(i) = slug

Response(st, err, body) == [status |-> st, error |-> err, body |-> body]

\* _check_time_tracking_enabled: None when the check passes, else the error response.
\* (mutant: the flag is never consulted)
CheckTimeTrackingEnabledMutAlwaysPass(en, p) ==
    IF p \notin Projects THEN Some(Response(404, "NotFound", None))
    ELSE None
CheckTimeTrackingEnabled(en, p) ==
    IF p \notin Projects THEN Some(Response(404, "NotFound", None))
    ELSE IF p \notin en THEN Some(Response(403, "FeatureDisabled", None))
    ELSE None

Result(es, resp) == [entries |-> es, resp |-> resp]

\* dict.get(key): None when the key is absent (or present with value None).
Get(field) == IF field = <<>> THEN None ELSE field[1]

\* dict.get(key, default) for a field that cannot be null.
GetOr(field, default) == IF field = <<>> THEN default ELSE field[1]

\* ids in descending creation order: order_by("-created_at")
RECURSIVE Descending(_)
Descending(ids) ==
    IF ids = {} THEN <<>>
    ELSE LET top == First(ids) IN <<top>> \o Descending(ids \ {top})

\* ---------------------------------------------------------------- timer start
\* for timer in other_active_timers: ... timer.save()
StopAll(es, ids, t) ==
    [id \in Ids(es) |-> IF id \in ids THEN Stopped(es[id], t) ELSE es[id]]

\* TimeEntry.objects.create(issue=..., user=..., started_at=now, source=TIMER, ...)
NewTimer(u, i, t, data) ==
    [issue |-> i, user |-> u,
     workspace |-> IssueWorkspace(i), project |-> IssueProject(i),
     started_at |-> Some(t), ended_at |-> None, duration_seconds |-> 0,
     source |-> "timer", is_billable |-> GetOr(data.is_billable, FALSE),
     created_at |-> t, deleted |-> FALSE]

\* (mutant: the caller's other running timers are left running)
TimerPostMutNoPreempt(es, en, t, u, slug, p, i, data) ==
    LET check == CheckTimeTrackingEnabled(en, p) IN
    IF check # None THEN Result(es, check[1])
    ELSE IF ~IssueFound(slug, p, i) THEN Result(es, Response(404, "NotFound", None))
    ELSE IF ActiveTimerQuery(es, u, i) # {} THEN Result(es, Response(400, "Conflict", None))
    ELSE Result(Append(es, NewTimer(u, i, t, data)),
                Response(201, "None", Some(Len(es) + 1)))
\* (mutant: the same-issue conflict query is left out)
TimerPostMutNoConflictCheck(es, en, t, u, slug, p, i, data) ==
    LET check == CheckTimeTrackingEnabled(en, p) IN
    IF check # None THEN Result(es, check[1])
    ELSE IF ~IssueFound(slug, p, i) THEN Result(es, Response(404, "NotFound", None))
    ELSE Result(Append(StopAll(es, OtherActiveTimers(es, u, i), t), NewTimer(u, i, t, data)),
                Response(201, "None", Some(Len(es) + 1)))

\* TimeEntryTimerEndpoint.post
TimerPost(es, en, t, u, slug, p, i, data) ==
    LET check == CheckTimeTrackingEnabled(en, p) IN
    IF check # None THEN Result(es, check[1])
    ELSE IF ~IssueFound(slug, p, i) THEN Result(es, Response(404, "NotFound", None))
    ELSE IF ActiveTimerQuery(es, u, i) # {} THEN Result(es, Response(400, "Conflict", None))
    ELSE Result(Append(StopAll(es, OtherActiveTimers(es, u, i), t), NewTimer(u, i, t, data)),
                Response(201, "None", Some(Len(es) + 1)))

\* ---------------------------------------------------------------- timer stop
\* TimeEntryTimerEndpoint.delete
TimerDelete(es, en, t, u, slug, p, i) ==
    LET check == CheckTimeTrackingEnabled(en, p)
        active == ActiveTimerQuery(es, u, i) IN
    IF check # None THEN Result(es, check[1])
    ELSE IF active = {} THEN Result(es, Response(404, "NotFound", None))
    ELSE Result(StopAll(es, {First(active)}, t), Response(200, "None", Some(First(active))))

\* ---------------------------------------------------------------- get_active
\* TimeEntryActiveTimerEndpoint.get
ActiveTimerGet(es, u, slug, p, i) ==
    LET active == ActiveTimerQuery(es, u, i) IN
    IF active = {} THEN Result(es, Response(200, "None", None))
    ELSE Result(es, Response(200, "None", Some(First(active))))

\* ---------------------------------------------------------------- entry CRUD
\* TimeEntryViewSet.get_queryset
GetQueryset(es, slug, p, i) ==
    {id \in Objects(es) : /\ es[id].workspace = slug
                          /\ es[id].project = p
                          /\ es[id].issue = i}

\* TimeEntryViewSet.list
List(es, en, slug, p, i, user_id) ==
    LET check == CheckTimeTrackingEnabled(en, p)
        qs == GetQueryset(es, slug, p, i)
        filtered == IF user_id = None THEN qs
                    ELSE {id \in qs : es[id].user = user_id[1]} IN
    IF check # None THEN Result(es, check[1])
    ELSE Result(es, Response(200, "None", Descending(filtered)))

\* TimeEntryCreateSerializer: the declared fields' own validation
\* (issue_id required, duration_seconds min_value=0).
CreateFieldsValid(data) ==
    /\ data.issue_id # <<>>
    /\ data.duration_seconds # <<>> => data.duration_seconds[1] >= 0

\* (mutant: a manual payload is accepted without a duration)
CreateValidateMutNoDurationCheck(data, t) ==
    LET source == GetOr(data.source, "manual") IN
    IF source = "timer" /\ Get(data.started_at) = None
    THEN Some([data EXCEPT !.started_at = Some(Some(t))])
    ELSE Some(data)
\* TimeEntryCreateSerializer.validate: None when the payload is rejected, else
\* Some(validated data), with started_at defaulted to now for a timer source.
CreateValidate(data, t) ==
    LET source == GetOr(data.source, "manual") IN
    IF source = "manual" /\ GetOr(data.duration_seconds, 0) = 0 THEN None
    ELSE IF source = "timer" /\ Get(data.started_at) = None
         THEN Some([data EXCEPT !.started_at = Some(Some(t))])
    ELSE Some(data)

\* (mutant: a timer payload without started_at passes, as in the create serializer)
TimeEntrySerializerValidateMutNoStartCheck(data) ==
    LET source == GetOr(data.source, "manual")
        duration_seconds == GetOr(data.duration_seconds, 0) IN
    IF source = "manual" /\ duration_seconds <= 0
    THEN [error |-> "duration_seconds", data |-> None]
    ELSE [error |-> "None", data |-> Some(data)]
\* TimeEntrySerializer.validate, the validator of the full serializer: the field
\* the ValidationError is raised on ("non_field_errors" for the range check,
\* "None" when the data passes) and the validated data.
TimeEntrySerializerValidate(data) ==
    LET source == GetOr(data.source, "manual")
        started_at == Get(data.started_at)
        ended_at == Get(data.ended_at)
        duration_seconds == GetOr(data.duration_seconds, 0) IN
    IF source = "manual" /\ duration_seconds <= 0
    THEN [error |-> "duration_seconds", data |-> None]
    ELSE IF source = "timer" /\ started_at = None
    THEN [error |-> "started_at", data |-> None]
    ELSE IF started_at # None /\ ended_at # None /\ started_at[1] > ended_at[1]
    THEN [error |-> "non_field_errors", data |-> None]
    ELSE IF started_at # None /\ ended_at # None /\ duration_seconds = 0
    THEN [error |-> "None",
          data |-> Some([data EXCEPT !.duration_seconds =
                            Some(elapsed_seconds(started_at[1], ended_at[1]))])]
    ELSE [error |-> "None", data |-> Some(data)]

\* TimeEntry.objects.create(**time_entry_data) in TimeEntryViewSet.create. The
\* validated data still holds the payload's issue_id next to the issue object the
\* view adds: the model constructor assigns the relation first and the remaining
\* issue_id keyword after it, so the row points at the issue the payload names,
\* with the workspace and project of the issue in the URL.
NewManual(u, i, t, vd) ==
    [issue |-> vd.issue_id[1], user |-> u,
     workspace |-> IssueWorkspace(i), project |-> IssueProject(i),
     started_at |-> Get(vd.started_at), ended_at |-> Get(vd.ended_at),
     duration_seconds |-> GetOr(vd.duration_seconds, 0),
     source |-> "manual", is_billable |-> GetOr(vd.is_billable, FALSE),
     created_at |-> t, deleted |-> FALSE]

\* TimeEntryViewSet.create
Create(es, en, t, u, slug, p, i, data) ==
    LET check == CheckTimeTrackingEnabled(en, p)
        vd == CreateValidate(data, t) IN
    IF check # None THEN Result(es, check[1])
    ELSE IF ~IssueFound(slug, p, i) THEN Result(es, Response(404, "NotFound", None))
    ELSE IF ~CreateFieldsValid(data) \/ vd = None
         THEN Result(es, Response(400, "ValidationError", None))
    ELSE Result(Append(es, NewManual(u, i, t, vd[1])), Response(201, "None", Some(Len(es) + 1)))

\* (mutant: nobody is refused)
PermissionDeniedMutNever(e, u, p) == FALSE
\* time_entry.user != request.user and no active ADMIN ProjectMember row
PermissionDenied(e, u, p) == e.user # u /\ ~IsProjectAdmin(u, p)

\* TimeEntryUpdateSerializer: the model fields' own validation
\* (duration_seconds is a PositiveIntegerField).
UpdateFieldsValid(data) ==
    data.duration_seconds # <<>> => data.duration_seconds[1] >= 0

\* (mutant: the stored value is not consulted)
MergedMutPayloadOnly(field, stored) == Get(field)
\* data.get(key) or self.instance.<key>
Merged(field, stored) == IF Get(field) # None THEN Get(field) ELSE stored

\* (mutant: the duration is derived even when the payload gives one)
UpdateValidateMutAlwaysDerive(e, data) ==
    LET started_at == Merged(data.started_at, e.started_at)
        ended_at == Merged(data.ended_at, e.ended_at) IN
    IF started_at # None /\ ended_at # None
    THEN IF started_at[1] > ended_at[1] THEN None
         ELSE Some([data EXCEPT !.duration_seconds =
                                    Some(elapsed_seconds(started_at[1], ended_at[1]))])
    ELSE Some(data)
\* TimeEntryUpdateSerializer.validate: None when rejected, else Some(data), with
\* duration_seconds added when both instants are known and none (or 0) was given.
UpdateValidate(e, data) ==
    LET started_at == Merged(data.started_at, e.started_at)
        ended_at == Merged(data.ended_at, e.ended_at) IN
    IF started_at # None /\ ended_at # None
    THEN IF started_at[1] > ended_at[1] THEN None
         ELSE IF GetOr(data.duration_seconds, 0) = 0
              THEN Some([data EXCEPT !.duration_seconds =
                                         Some(elapsed_seconds(started_at[1], ended_at[1]))])
              ELSE Some(data)
    ELSE Some(data)

\* serializer.save(): every key of the validated data is written to the instance.
Saved(e, vd) ==
    [e EXCEPT !.started_at = IF vd.started_at # <<>> THEN vd.started_at[1] ELSE @,
              !.ended_at = IF vd.ended_at # <<>> THEN vd.ended_at[1] ELSE @,
              !.duration_seconds = GetOr(vd.duration_seconds, @),
              !.is_billable = GetOr(vd.is_billable, @)]

\* (mutant: the entry is looked up before the feature check)
PartialUpdateMutLookupFirst(es, en, u, slug, p, i, pk, data) ==
    LET check == CheckTimeTrackingEnabled(en, p)
        vd == UpdateValidate(es[pk], data) IN
    IF pk \notin GetQueryset(es, slug, p, i)
    THEN Result(es, Response(404, "NotFound", None))
    ELSE IF check # None THEN Result(es, check[1])
    ELSE IF PermissionDenied(es[pk], u, p) THEN Result(es, Response(403, "Forbidden", None))
    ELSE IF ~UpdateFieldsValid(data) \/ vd = None
         THEN Result(es, Response(400, "ValidationError", None))
    ELSE Result([es EXCEPT ![pk] = Saved(@, vd[1])], Response(200, "None", Some(pk)))

\* TimeEntryViewSet.partial_update
PartialUpdate(es, en, u, slug, p, i, pk, data) ==
    LET check == CheckTimeTrackingEnabled(en, p)
        vd == UpdateValidate(es[pk], data) IN
    IF check # None THEN Result(es, check[1])
    ELSE IF pk \notin GetQueryset(es, slug, p, i)
         THEN Result(es, Response(404, "NotFound", None))
    ELSE IF PermissionDenied(es[pk], u, p) THEN Result(es, Response(403, "Forbidden", None))
    ELSE IF ~UpdateFieldsValid(data) \/ vd = None
         THEN Result(es, Response(400, "ValidationError", None))
    ELSE Result([es EXCEPT ![pk] = Saved(@, vd[1])], Response(200, "None", Some(pk)))

\* time_entry.delete(): the row is kept and marked deleted.
SoftDeleted(e) == [e EXCEPT !.deleted = TRUE]

\* (mutant: the row is left as it was)
DestroyMutKeepsRow(es, en, u, slug, p, i, pk) ==
    LET check == CheckTimeTrackingEnabled(en, p) IN
    IF check # None THEN Result(es, check[1])
    ELSE IF pk \notin GetQueryset(es, slug, p, i)
         THEN Result(es, Response(404, "NotFound", None))
    ELSE IF PermissionDenied(es[pk], u, p) THEN Result(es, Response(403, "Forbidden", None))
    ELSE Result(es, Response(204, "None", None))
\* TimeEntryViewSet.destroy
Destroy(es, en, u, slug, p, i, pk) ==
    LET check == CheckTimeTrackingEnabled(en, p) IN
    IF check # None THEN Result(es, check[1])
    ELSE IF pk \notin GetQueryset(es, slug, p, i)
         THEN Result(es, Response(404, "NotFound", None))
    ELSE IF PermissionDenied(es[pk], u, p) THEN Result(es, Response(403, "Forbidden", None))
    ELSE Result([es EXCEPT ![pk] = SoftDeleted(@)], Response(204, "None", None))

\* ---------------------------------------------------------------- requests
\* The (project_id, issue_id) pairs a URL names: each issue under its own project,
\* an issue under the other project, a missing issue and a missing project.
UrlTargets ==
    {<<IssueProject(i), i>> : i \in Issues}
        \cup {<<"p1", "i2">>, <<"p1", NoIssue>>, <<NoProject, "i1">>}

\* The slug of a URL: the permission layer lets a request through only for a
\* project of the workspace it names.
UrlSlug(p) == ProjectWorkspace(p)

UrlIssues == Issues \cup {NoIssue}
UrlPks == 1 .. MaxEntries

\* request bodies of timer start
TimerData == [is_billable : {<<>>}]

\* request bodies of entry create, for the issue the client names
CreateData(i) ==
    [issue_id : {<<i>>},
     source : {<<>>, <<"timer">>},
     started_at : {<<>>, <<Some(0)>>},
     ended_at : {<<>>},
     duration_seconds : {<<>>, <<1>>, <<0 - 1>>},
     is_billable : {<<>>}]

\* request bodies of entry update: at most one key each
NoData == [started_at |-> <<>>, ended_at |-> <<>>, duration_seconds |-> <<>>,
           is_billable |-> <<>>]
UpdateData ==
    {NoData}
        \cup {[NoData EXCEPT !.started_at = Some(Some(MaxTime))]}
        \cup {[NoData EXCEPT !.ended_at = Some(v)] : v \in {None, Some(0)}}
        \cup {[NoData EXCEPT !.duration_seconds = Some(n)] : n \in (0 - 1) .. 1}
        \cup {[NoData EXCEPT !.is_billable = Some(TRUE)]}

\* No conversation, no message, no user with an LLM key.
NoChat == [conversations |-> <<>>, messages |-> <<>>, keys |-> {}]

\* No issue is linked to a module.
NoLinks == [i \in Issues |-> <<>>]

NoRequest == [op |-> "none", status |-> 0, error |-> "None", body |-> None]

Init ==
    /\ entries = <<>>
    /\ enabled = Projects
    /\ now = 0
    /\ nops = 0
    /\ last = NoRequest
    /\ req = <<>>
    /\ links = NoLinks
    /\ chat = NoChat

\* One request handled to completion: the store and the response it leaves.
Handle(op, r) ==
    /\ nops < MaxOps
    /\ Len(r.entries) <= MaxEntries
    /\ entries' = r.entries
    /\ last' = [op |-> op, status |-> r.resp.status, error |-> r.resp.error,
                body |-> r.resp.body]
    /\ nops' = nops + 1
    /\ UNCHANGED <<chat, links, enabled, now, req>>

Start(u, slug, p, i, data) ==
    Handle("start", TimerPost(entries, enabled, now, u, slug, p, i, data))

Stop(u, slug, p, i) ==
    Handle("stop", TimerDelete(entries, enabled, now, u, slug, p, i))

GetActive(u, slug, p, i) ==
    Handle("get_active", ActiveTimerGet(entries, u, slug, p, i))

ListEntries(u, slug, p, i, user_id) ==
    Handle("list", List(entries, enabled, slug, p, i, user_id))

CreateEntry(u, slug, p, i, data) ==
    Handle("create", Create(entries, enabled, now, u, slug, p, i, data))

UpdateEntry(u, slug, p, i, pk, data) ==
    Handle("update", PartialUpdate(entries, enabled, u, slug, p, i, pk, data))

DeleteEntry(u, slug, p, i, pk) ==
    Handle("delete", Destroy(entries, enabled, u, slug, p, i, pk))

\* The project's is_time_tracking_enabled flag is switched in the project settings.
SetTimeTracking(p) ==
    /\ nops < MaxOps
    /\ enabled' = IF p \in enabled THEN enabled \ {p} ELSE enabled \cup {p}
    /\ last' = [NoRequest EXCEPT !.op = "settings", !.status = 200]
    /\ nops' = nops + 1
    /\ UNCHANGED <<chat, links, entries, now, req>>

\* timezone.now() advances.
Tick ==
    /\ now < MaxTime
    /\ now' = now + 1
    /\ UNCHANGED <<chat, links, entries, enabled, nops, last, req>>

Next ==
    \/ \E u \in Users, target \in UrlTargets :
          LET p == target[1]
              i == target[2]
              slug == UrlSlug(p) IN
          \/ \E data \in TimerData : Start(u, slug, p, i, data)
          \/ Stop(u, slug, p, i)
          \/ GetActive(u, slug, p, i)
          \/ \E user_id \in {None, Some(u)} : ListEntries(u, slug, p, i, user_id)
          \/ \E data \in CreateData(i) : CreateEntry(u, slug, p, i, data)
          \/ \E pk \in UrlPks, data \in UpdateData : UpdateEntry(u, slug, p, i, pk, data)
          \/ \E pk \in UrlPks : DeleteEntry(u, slug, p, i, pk)
    \/ \E p \in Projects : SetTimeTracking(p)
    \/ Tick

Spec == Init /\ [][Next]_vars

\* Timer requests alone: start and stop, handled one at a time, as time passes.
NextTimer ==
    \/ \E u \in Users, target \in UrlTargets, data \in TimerData :
          Start(u, UrlSlug(target[1]), target[1], target[2], data)
    \/ \E u \in Users, target \in UrlTargets :
          Stop(u, UrlSlug(target[1]), target[1], target[2])
    \/ Tick

SpecTimer == Init /\ [][NextTimer]_vars

\* ---------------------------------------------------------------- concurrent starts
\* Two timer-start requests handled at once. Each runs TimeEntryTimerEndpoint.post
\* one store access at a time: the feature and issue lookups, the conflict query,
\* the query for the other active timers (with now read just before it), one
\* save per loaded timer, and the create. Nothing in the handler opens a
\* transaction or locks a row.
Requests == {1, 2}

\* Stores a run of requests can have left behind: empty, or one running timer.
RaceStores ==
    {<<>>} \cup {<<NewTimer(u, i, 0, [is_billable |-> <<>>])>> : u \in Users, i \in Issues}

InitRace ==
    /\ entries \in RaceStores
    /\ enabled = Projects
    /\ now = 0
    /\ nops = 0
    /\ last = NoRequest
    /\ req \in [Requests -> [pc : {"check"}, user : Users, issue : Issues,
                             t : {0}, loaded : {<<>>}, status : {0}, error : {"None"}]]
    /\ links = NoLinks
    /\ chat = NoChat

Respond(k, st, err) ==
    req' = [req EXCEPT ![k].pc = "done", ![k].status = st, ![k].error = err]

\* _check_time_tracking_enabled(project_id) and Issue.objects.get(...)
RaceCheck(k) ==
    LET p == IssueProject(req[k].issue)
        check == CheckTimeTrackingEnabled(enabled, p) IN
    /\ req[k].pc = "check"
    /\ IF check # None THEN Respond(k, check[1].status, check[1].error)
       ELSE IF ~IssueFound(UrlSlug(p), p, req[k].issue) THEN Respond(k, 404, "NotFound")
       ELSE req' = [req EXCEPT ![k].pc = "conflict"]
    /\ UNCHANGED <<chat, links, entries, enabled, now, nops, last>>

\* active_timer = TimeEntry.objects.filter(...).first(); if active_timer: return 400
RaceConflict(k) ==
    /\ req[k].pc = "conflict"
    /\ IF ActiveTimerQuery(entries, req[k].user, req[k].issue) # {}
       THEN Respond(k, 400, "Conflict")
       ELSE req' = [req EXCEPT ![k].pc = "others"]
    /\ UNCHANGED <<chat, links, entries, enabled, now, nops, last>>

\* now = timezone.now(); the loop evaluates other_active_timers, loading the rows.
RaceLoadOthers(k) ==
    /\ req[k].pc = "others"
    /\ req' = [req EXCEPT
                 ![k].t = now,
                 ![k].loaded =
                     LET ids == Descending(OtherActiveTimers(entries, req[k].user,
                                                             req[k].issue)) IN
                     [n \in 1 .. Len(ids) |-> [id |-> ids[n], row |-> entries[ids[n]]]],
                 ![k].pc = IF OtherActiveTimers(entries, req[k].user, req[k].issue) = {}
                           THEN "create" ELSE "save"]
    /\ UNCHANGED <<chat, links, entries, enabled, now, nops, last>>

\* timer.ended_at = now; timer.duration_seconds = ...; timer.save(): the loaded
\* row is written back whole.
RaceSave(k) ==
    /\ req[k].pc = "save"
    /\ LET timer == Head(req[k].loaded) IN
       /\ entries' = [entries EXCEPT ![timer.id] = Stopped(timer.row, req[k].t)]
       /\ req' = [req EXCEPT ![k].loaded = Tail(@),
                             ![k].pc = IF Tail(req[k].loaded) = <<>> THEN "create"
                                       ELSE "save"]
    /\ UNCHANGED <<chat, links, enabled, now, nops, last>>

\* TimeEntry.objects.create(...); return 201
RaceCreate(k) ==
    /\ req[k].pc = "create"
    /\ entries' = Append(entries, NewTimer(req[k].user, req[k].issue, req[k].t,
                                           [is_billable |-> <<>>]))
    /\ Respond(k, 201, "None")
    /\ UNCHANGED <<chat, links, enabled, now, nops, last>>

NextRace ==
    \/ \E k \in Requests :
          \/ RaceCheck(k)
          \/ RaceConflict(k)
          \/ RaceLoadOthers(k)
          \/ RaceSave(k)
          \/ RaceCreate(k)
    \/ Tick

SpecRace == InitRace /\ [][NextRace]_vars

AllDone == \A k \in Requests : req[k].pc = "done"

\* ---------------------------------------------------------------- AI chat
\* Rows of ai_chat_conversations are [workspace, user, title], rows of
\* ai_chat_messages are [conversation, role, created_at, deleted], both in
\* creation order (index = primary key); a deleted message stays in the
\* sequence, marked, so that primary keys keep their meaning.
NoWorkspace == "w0"
ChatSlugs == Workspaces \cup {NoWorkspace}

\* AIChatConversation.objects.get(pk=..., workspace=workspace, user=request.user)
ConversationFound(ch, slug, u, c) ==
    /\ c \in 1 .. Len(ch.conversations)
    /\ ch.conversations[c].workspace = slug
    /\ ch.conversations[c].user = u

\* conversation.messages / AIChatMessage.objects.filter(conversation=conversation)
MessagesOf(ch, c) ==
    {m \in 1 .. Len(ch.messages) : ~ch.messages[m].deleted /\ ch.messages[m].conversation = c}

\* AIChatMessage.objects.create(conversation=..., role=..., ...) at time t
NewMessage(c, role, t) == [conversation |-> c, role |-> role, created_at |-> t, deleted |-> FALSE]

\* What the two calls of the LLM API can come to: the completion fails; it
\* succeeds and so does the title completion; it succeeds and the title
\* completion fails or is empty.
LLMOutcomes == {"fail", "ok", "ok_untitled"}

ChatResult(ch, resp) == [chat |-> ch, resp |-> resp]

\* AIChatSendMessageEndpoint.post, handled at time t, the completion arriving at
\* time answered. The body of a 200 is Some(conversation id).
SendMessagePost(ch, t, answered, u, slug, data, llm) ==
    LET message == GetOr(data.message, "")
        given == data.conversation_id # <<>>
        title == IF GetOr(data.title, "") # "" THEN data.title[1] ELSE "New Conversation"
        c == IF given THEN data.conversation_id[1] ELSE Len(ch.conversations) + 1
        conversations == IF given THEN ch.conversations
                         ELSE Append(ch.conversations,
                                     [workspace |-> slug, user |-> u, title |-> title])
        asked == [ch EXCEPT !.conversations = conversations,
                            !.messages = Append(@, NewMessage(c, "user", t))]
        replied == [asked EXCEPT !.messages = Append(@, NewMessage(c, "assistant", answered))]
        titled == IF /\ replied.conversations[c].title = "New Conversation"
                     /\ Cardinality(MessagesOf(replied, c)) = 2
                     /\ llm = "ok"
                  THEN [replied EXCEPT !.conversations[c].title = "generated"]
                  ELSE replied IN
    IF message = "" THEN ChatResult(ch, Response(400, "ValidationError", None))
    ELSE IF slug \notin Workspaces THEN ChatResult(ch, Response(404, "NotFound", None))
    ELSE IF u \notin ch.keys THEN ChatResult(ch, Response(400, "NoApiKey", None))
    ELSE IF given /\ ~ConversationFound(ch, slug, u, c)
         THEN ChatResult(ch, Response(404, "NotFound", None))
    ELSE IF llm = "fail" THEN ChatResult(asked, Response(500, "LLMError", None))
    ELSE ChatResult(titled, Response(200, "None", Some(c)))

\* (mutant: the message itself is kept, only later ones go)
TruncatePostMutKeepsMessage(ch, u, slug, c, m) ==
    LET gone == {x \in MessagesOf(ch, c) :
                    ch.messages[x].created_at > ch.messages[m].created_at} IN
    IF slug \notin Workspaces \/ ~ConversationFound(ch, slug, u, c) \/ m \notin MessagesOf(ch, c)
    THEN ChatResult(ch, Response(404, "NotFound", None))
    ELSE ChatResult([ch EXCEPT !.messages =
                        [x \in 1 .. Len(ch.messages) |->
                            IF x \in gone THEN [ch.messages[x] EXCEPT !.deleted = TRUE]
                            ELSE ch.messages[x]]],
                    Response(200, "None",
                             Some([conversation |-> c, deleted_count |-> Cardinality(gone)])))
\* AIChatTruncateConversationEndpoint.post. The body of a 200 is Some of the
\* conversation id and deleted_count.
TruncatePost(ch, u, slug, c, m) ==
    LET gone == {x \in MessagesOf(ch, c) :
                    ch.messages[x].created_at >= ch.messages[m].created_at} IN
    IF slug \notin Workspaces THEN ChatResult(ch, Response(404, "NotFound", None))
    ELSE IF ~ConversationFound(ch, slug, u, c)
         THEN ChatResult(ch, Response(404, "NotFound", None))
    ELSE IF m \notin MessagesOf(ch, c) THEN ChatResult(ch, Response(404, "NotFound", None))
    ELSE ChatResult([ch EXCEPT !.messages =
                        [x \in 1 .. Len(ch.messages) |->
                            IF x \in gone THEN [ch.messages[x] EXCEPT !.deleted = TRUE]
                            ELSE ch.messages[x]]],
                    Response(200, "None",
                             Some([conversation |-> c, deleted_count |-> Cardinality(gone)])))

\* request bodies of send-message: the message absent, blank or given; into a
\* new conversation, with or without a title, or into conversation c
SendData ==
    [message : {<<>>, <<"">>, <<"hi">>}, conversation_id : {<<>>}, title : {<<>>}]
        \cup [message : {<<"hi">>}, conversation_id : {<<>>}, title : {<<"given">>}]
        \cup [message : {<<"hi">>}, conversation_id : {<<c>> : c \in 1 .. MaxConversations},
              title : {<<>>}]

\* u1 has an llm_api_key in the profile, u2 has none.
InitChat ==
    /\ entries = <<>>
    /\ enabled = Projects
    /\ now = 0
    /\ nops = 0
    /\ last = NoRequest
    /\ req = <<>>
    /\ links = NoLinks
    /\ chat = [NoChat EXCEPT !.keys = {"u1"}]

HandleChat(op, r, request) ==
    /\ nops < MaxChatOps
    /\ Len(r.chat.conversations) <= MaxConversations
    /\ Len(r.chat.messages) <= MaxMessages
    /\ chat' = r.chat
    /\ last' = [op |-> op, status |-> r.resp.status, error |-> r.resp.error,
                body |-> r.resp.body]
    /\ nops' = nops + 1
    /\ req' = request
    /\ UNCHANGED <<links, entries, enabled>>

\* The completion takes no time, or a tick.
SendMessage(u, slug, data, llm) ==
    \E answered \in {t \in {now, now + 1} : t <= MaxTime} :
        /\ HandleChat("send", SendMessagePost(chat, now, answered, u, slug, data, llm),
                      <<[op |-> "send", user |-> u, slug |-> slug, data |-> data]>>)
        /\ now' = answered

Truncate(u, slug, c, m) ==
    /\ HandleChat("truncate", TruncatePost(chat, u, slug, c, m),
                  <<[op |-> "truncate", user |-> u, slug |-> slug, conversation |-> c,
                     message |-> m]>>)
    /\ now' = now

NextChat ==
    \/ \E u \in Users, slug \in ChatSlugs, data \in SendData, llm \in LLMOutcomes :
          SendMessage(u, slug, data, llm)
    \/ \E u \in Users, slug \in ChatSlugs, c \in 1 .. MaxConversations, m \in 1 .. MaxMessages :
          Truncate(u, slug, c, m)
    \/ Tick

SpecChat == InitChat /\ [][NextChat]_vars

\* ---------------------------------------------------------------- a stop and an update in flight
\* Two requests on the running timer of u1 on i1 (entry 1), their steps
\* interleaved: DELETE timer by u1, and PATCH time-entries/1 by the owner or the
\* project admin. Each loads the row into an instance and later saves the
\* instance: Model.save() writes every column.
PatchData == {NoData} \cup {[NoData EXCEPT !.is_billable = Some(b)] : b \in BOOLEAN}

InitStopUpdate ==
    /\ entries = <<NewTimer("u1", "i1", 0, [is_billable |-> <<>>])>>
    /\ enabled = Projects
    /\ now = 0
    /\ nops = 0
    /\ last = NoRequest
    /\ req \in {[stop |-> [pc |-> "load", loaded |-> <<>>, t |-> 0, status |-> 0],
                  patch |-> [pc |-> "load", loaded |-> <<>>, user |-> u, data |-> data,
                             status |-> 0]] : u \in Users, data \in PatchData}
    /\ links = NoLinks
    /\ chat = NoChat

\* delete: the feature check and active_timer = TimeEntry.objects.filter(...).first()
StopLoad ==
    LET r == TimerDelete(entries, enabled, now, "u1", "w1", "p1", "i1") IN
    /\ req.stop.pc = "load"
    /\ IF r.resp.status # 200
       THEN req' = [req EXCEPT !.stop.pc = "done", !.stop.status = r.resp.status]
       ELSE req' = [req EXCEPT !.stop.pc = "save",
                               !.stop.loaded = <<[id |-> r.resp.body[1],
                                                  row |-> entries[r.resp.body[1]]]>>]
    /\ UNCHANGED <<chat, links, entries, enabled, now, nops, last>>

\* delete: now = timezone.now(); active_timer.ended_at = now; ...; active_timer.save()
StopSave ==
    /\ req.stop.pc = "save"
    /\ LET timer == req.stop.loaded[1] IN
       entries' = [entries EXCEPT ![timer.id] = Stopped(timer.row, now)]
    /\ req' = [req EXCEPT !.stop.pc = "done", !.stop.t = now, !.stop.status = 200]
    /\ UNCHANGED <<chat, links, enabled, now, nops, last>>

\* partial_update: the feature check, time_entry = self.get_queryset().get(pk=pk)
\* and the permission check
PatchLoad ==
    LET r == PartialUpdate(entries, enabled, req.patch.user, "w1", "p1", "i1", 1,
                           req.patch.data) IN
    /\ req.patch.pc = "load"
    /\ IF r.resp.status \in {403, 404}
       THEN req' = [req EXCEPT !.patch.pc = "done", !.patch.status = r.resp.status]
       ELSE req' = [req EXCEPT !.patch.pc = "save", !.patch.loaded = <<entries[1]>>]
    /\ UNCHANGED <<chat, links, entries, enabled, now, nops, last>>

\* partial_update: serializer.is_valid() and serializer.save() on the instance
\* loaded before
PatchSave ==
    LET r == PartialUpdate([entries EXCEPT ![1] = req.patch.loaded[1]], enabled,
                           req.patch.user, "w1", "p1", "i1", 1, req.patch.data) IN
    /\ req.patch.pc = "save"
    /\ entries' = [entries EXCEPT ![1] = r.entries[1]]
    /\ req' = [req EXCEPT !.patch.pc = "done", !.patch.status = r.resp.status]
    /\ UNCHANGED <<chat, links, enabled, now, nops, last>>

NextStopUpdate ==
    \/ StopLoad
    \/ StopSave
    \/ PatchLoad
    \/ PatchSave
    \/ Tick

SpecStopUpdate == InitStopUpdate /\ [][NextStopUpdate]_vars

\* ---------------------------------------------------------------- entry payloads
\* Create, update and delete requests on issue i1 of project p1, one at a time,
\* with every combination of the payload keys the serializers read.
MaxEdits == 2

\* The duration_seconds key: absent or an integer.
DurationFields == {<<>>} \cup {<<n>> : n \in (0 - 1) .. 1}

\* request bodies of entry create: every timing of a manual and of a timer
\* payload for the issue in the URL, and the same with the source left out, an
\* instant given as null or another issue named.
TimedCreatePayloads ==
    [issue_id : {<<"i1">>},
     source : {<<"manual">>, <<"timer">>},
     started_at : {<<>>, <<Some(0)>>, <<Some(MaxTime)>>},
     ended_at : {<<>>} \cup {<<Some(t)>> : t \in 0 .. MaxTime},
     duration_seconds : DurationFields,
     is_billable : {<<>>}]
CreatePayloads ==
    TimedCreatePayloads
        \cup {[d EXCEPT !.source = <<>>] :
                 d \in {t \in TimedCreatePayloads : t.started_at = <<>>}}
        \cup {[d EXCEPT !.started_at = <<None>>, !.ended_at = <<None>>] :
                 d \in {t \in TimedCreatePayloads :
                           t.started_at = <<>> /\ t.ended_at = <<>>}}
        \cup {[d EXCEPT !.issue_id = <<"i2">>] :
                 d \in {t \in TimedCreatePayloads :
                           /\ t.started_at = <<>> /\ t.ended_at = <<>>
                           /\ t.duration_seconds = <<1>>}}

\* request bodies of entry update: every timing, or the billable flag alone
UpdatePayloads ==
    [started_at : {<<>>, <<None>>, <<Some(0)>>, <<Some(MaxTime)>>},
     ended_at : {<<>>, <<None>>} \cup {<<Some(t)>> : t \in 0 .. MaxTime},
     duration_seconds : DurationFields,
     is_billable : {<<>>}]
        \cup {[NoData EXCEPT !.is_billable = Some(TRUE)]}

\* The request being answered: who sent it, for which entry, with which body.
Received(op, u, pk, data) == <<[op |-> op, user |-> u, pk |-> pk, data |-> data]>>

HandleEdit(op, r, request) ==
    /\ nops < MaxEdits
    /\ Len(r.entries) <= MaxEntries
    /\ entries' = r.entries
    /\ last' = [op |-> op, status |-> r.resp.status, error |-> r.resp.error,
                body |-> r.resp.body]
    /\ nops' = nops + 1
    /\ req' = request
    /\ UNCHANGED <<chat, links, enabled, now>>

CreateWith(u, data) ==
    HandleEdit("create", Create(entries, enabled, now, u, "w1", "p1", "i1", data),
               Received("create", u, 0, data))

UpdateWith(u, pk, data) ==
    /\ pk \in Ids(entries)
    /\ HandleEdit("update", PartialUpdate(entries, enabled, u, "w1", "p1", "i1", pk, data),
                  Received("update", u, pk, data))

DeleteBy(u, pk) ==
    /\ pk \in Ids(entries)
    /\ HandleEdit("delete", Destroy(entries, enabled, u, "w1", "p1", "i1", pk),
                  Received("delete", u, pk, NoData))

NextEdit ==
    \/ \E u \in Users, data \in CreatePayloads : CreateWith(u, data)
    \/ \E u \in Users, pk \in UrlPks, data \in UpdatePayloads : UpdateWith(u, pk, data)
    \/ \E u \in Users, pk \in UrlPks : DeleteBy(u, pk)
    \/ Tick

SpecEdit == Init /\ [][NextEdit]_vars

\* ---------------------------------------------------------------- reports and export
\* Ticks of one calendar day: created_at__date is the day an instant falls in.
TicksPerDay == 2

Modules == {"m1", "m2"}

\* created_at__date
DateOf(t) == t \div TicksPerDay

\* datetime.strptime(text, "%Y-%m-%d").date(): the day, or None for ValueError.
\* Day 0 is 0001-01-01; the month and the day may be written without a leading
\* zero; a text in another layout or naming no calendar day raises.
StrpDate(text) ==
    CASE text = "0001-01-01" -> Some(0)
      [] text = "0001-01-02" -> Some(1)
      [] text = "0001-1-2" -> Some(1)
      [] OTHER -> None

\* request.GET.get(key) is truthy: the parameter is present and not empty.
Given(field) == field # <<>> /\ field[1] # ""

\* Sum("duration_seconds") over a set of rows
RECURSIVE SumSeconds(_, _)
SumSeconds(es, ids) ==
    IF ids = {} THEN 0
    ELSE LET id == CHOOSE x \in ids : TRUE IN
         es[id].duration_seconds + SumSeconds(es, ids \ {id})

\* (mutant: a to that does not parse is left out instead of refused)
BaseQuerysetMutSkipsBadTo(es, slug, params) ==
    LET from == IF Given(params.from) THEN StrpDate(params.from[1]) ELSE None
        to == IF Given(params.to) THEN StrpDate(params.to[1]) ELSE None IN
    IF Given(params.from) /\ from = None THEN None
    ELSE Some({id \in Objects(es) :
                 /\ es[id].workspace = slug
                 /\ es[id].ended_at # None
                 /\ Given(params.project_id) => es[id].project = params.project_id[1]
                 /\ Given(params.user_id) => es[id].user = params.user_id[1]
                 /\ from # None => DateOf(es[id].created_at) >= from[1]
                 /\ to # None => DateOf(es[id].created_at) <= to[1]})
\* TimeEntry.objects.filter(workspace__slug=slug, ended_at__isnull=False) with
\* the project, user and date filters applied; None when a date raises.
BaseQueryset(es, slug, params) ==
    LET from == IF Given(params.from) THEN StrpDate(params.from[1]) ELSE None
        to == IF Given(params.to) THEN StrpDate(params.to[1]) ELSE None IN
    IF Given(params.from) /\ from = None THEN None
    ELSE IF Given(params.to) /\ to = None THEN None
    ELSE Some({id \in Objects(es) :
                 /\ es[id].workspace = slug
                 /\ es[id].ended_at # None
                 /\ Given(params.project_id) => es[id].project = params.project_id[1]
                 /\ Given(params.user_id) => es[id].user = params.user_id[1]
                 /\ from # None => DateOf(es[id].created_at) >= from[1]
                 /\ to # None => DateOf(es[id].created_at) <= to[1]})

\* The sequences that list every element of a set once.
Perms(S) ==
    {f \in [1 .. Cardinality(S) -> S] : \A a, b \in 1 .. Cardinality(S) : f[a] = f[b] => a = b}

\* The group key of a row under queryset.values(...) of each mode.
GroupKey(e, group_by) ==
    CASE group_by = "user" -> <<e.user>>
      [] group_by = "work_item" -> <<e.issue, e.project>>
      [] group_by = "project" -> <<e.project>>
      [] group_by = "module" -> <<e.issue, e.project>>

\* (mutant: every row counts one entry)
AnnotatedMutCountOne(es, ids, group_by) ==
    {[key |-> k,
      total_seconds |-> SumSeconds(es, {id \in ids : GroupKey(es[id], group_by) = k}),
      entry_count |-> 1] :
        k \in {GroupKey(es[id], group_by) : id \in ids}}
\* .values(...).annotate(total_seconds=Sum(...), entry_count=Count("id")): one
\* row per key.
Annotated(es, ids, group_by) ==
    {[key |-> k,
      total_seconds |-> SumSeconds(es, {id \in ids : GroupKey(es[id], group_by) = k}),
      entry_count |-> Cardinality({id \in ids : GroupKey(es[id], group_by) = k})] :
        k \in {GroupKey(es[id], group_by) : id \in ids}}

\* .order_by("-total_seconds"): the database returns the rows by decreasing
\* total, rows of equal total in an order the query does not fix.
OrderedByTotal(rows) ==
    {f \in Perms(rows) :
        \A a, b \in 1 .. Cardinality(rows) :
            a < b => f[a].total_seconds >= f[b].total_seconds}

\* (mutant: the last linked module is taken)
FirstModuleMutLast(ls, i) == IF ls[i] = <<>> THEN None ELSE Some(ls[i][Len(ls[i])])
\* ModuleIssue.objects.filter(issue_id=...).first(): None when the issue has none.
FirstModule(ls, i) == IF ls[i] = <<>> THEN None ELSE Some(ls[i][1])

\* module_aggregates: per module id, in the order the ids are first met, the
\* sums over the issue rows whose module_id is not None.
RECURSIVE ModuleAggregates(_, _, _)
ModuleAggregates(items, ls, acc) ==
    IF items = <<>> THEN acc
    ELSE LET item == Head(items)
             module == FirstModule(ls, item.key[1]) IN
         IF module = None THEN ModuleAggregates(Tail(items), ls, acc)
         ELSE IF \E n \in 1 .. Len(acc) : acc[n].key = module
              THEN ModuleAggregates(Tail(items), ls,
                       [n \in 1 .. Len(acc) |->
                           IF acc[n].key = module
                           THEN [acc[n] EXCEPT
                                    !.total_seconds = @ + item.total_seconds,
                                    !.entry_count = @ + item.entry_count]
                           ELSE acc[n]])
              ELSE ModuleAggregates(Tail(items), ls,
                       Append(acc, [key |-> module,
                                    total_seconds |-> item.total_seconds,
                                    entry_count |-> item.entry_count]))

\* report_data.sort(key=total_seconds, reverse=True): stable, rows of equal
\* total keep the order they had.
RECURSIVE SortByTotal(_)
SortByTotal(rows) ==
    IF rows = <<>> THEN <<>>
    ELSE LET n == CHOOSE a \in 1 .. Len(rows) :
                     /\ \A b \in 1 .. Len(rows) :
                           rows[b].total_seconds <= rows[a].total_seconds
                     /\ \A b \in 1 .. (a - 1) :
                           rows[b].total_seconds < rows[a].total_seconds IN
         <<rows[n]>> \o SortByTotal(SubSeq(rows, 1, n - 1) \o SubSeq(rows, n + 1, Len(rows)))

ValidGroupBy == {"user", "work_item", "project", "module"}

\* (mutant: a refused report empties the table)
ReportGetMutRefusalClears(es, ls, slug, params) ==
    LET group_by == GetOr(params.group_by, "user")
        base == BaseQueryset(es, slug, params) IN
    IF group_by \notin ValidGroupBy \/ base = None
    THEN {Result(<<>>, Response(400, "ValidationError", None))}
    ELSE {Result(es, Response(200, "None", Some(rows))) :
             rows \in OrderedByTotal(Annotated(es, base[1], group_by))}
\* TimeEntryReportsEndpoint.get: the responses the request can get, one per order
\* the database may return rows of equal total in. The body of a report is
\* Some(rows).
ReportGet(es, ls, slug, params) ==
    LET group_by == GetOr(params.group_by, "user")
        base == BaseQueryset(es, slug, params) IN
    IF group_by \notin ValidGroupBy
    THEN {Result(es, Response(400, "ValidationError", None))}
    ELSE IF base = None THEN {Result(es, Response(400, "ValidationError", None))}
    ELSE IF group_by = "module"
         THEN {Result(es, Response(200, "None",
                                   Some(SortByTotal(ModuleAggregates(items, ls, <<>>))))) :
                  items \in Perms(Annotated(es, base[1], "module"))}
    ELSE {Result(es, Response(200, "None", Some(rows))) :
             rows \in OrderedByTotal(Annotated(es, base[1], group_by))}

\* the header row of the CSV
ExportHeader ==
    <<"Date", "User", "User Email", "Project", "Work Item", "Work Item Key", "Module",
      "Duration (hours)", "Duration (seconds)", "Source", "Billable", "Note">>

\* writer.writerow([...]) for one entry
ExportRow(es, ls, id) ==
    [entry |-> id,
     date |-> DateOf(es[id].created_at),
     user |-> es[id].user,
     project |-> es[id].project,
     issue |-> es[id].issue,
     module |-> IF FirstModule(ls, es[id].issue) = None THEN ""
                ELSE FirstModule(ls, es[id].issue)[1],
     duration_seconds |-> es[id].duration_seconds,
     source |-> es[id].source,
     billable |-> IF es[id].is_billable THEN "Yes" ELSE "No"]

\* (mutant: entries without ended_at are exported too)
ExportGetMutAllEntries(es, ls, slug, params) ==
    LET base == BaseQueryset(es, slug, params) IN
    IF base = None THEN Result(es, Response(400, "ValidationError", None))
    ELSE LET ids == Descending({id \in Objects(es) : es[id].workspace = slug}) IN
         Result(es, Response(200, "None",
                    Some([header |-> ExportHeader,
                          rows |-> [n \in 1 .. Len(ids) |-> ExportRow(es, ls, ids[n])]])))
\* (mutant: the rows come oldest first)
ExportGetMutOldestFirst(es, ls, slug, params) ==
    LET base == BaseQueryset(es, slug, params) IN
    IF base = None THEN Result(es, Response(400, "ValidationError", None))
    ELSE LET ids == Descending(base[1]) IN
         Result(es, Response(200, "None",
                    Some([header |-> ExportHeader,
                          rows |-> [n \in 1 .. Len(ids) |->
                                       ExportRow(es, ls, ids[Len(ids) + 1 - n])]])))
\* TimeEntryExportEndpoint.get: the body of an export is Some of the header and
\* the data rows.
ExportGet(es, ls, slug, params) ==
    LET base == BaseQueryset(es, slug, params) IN
    IF base = None THEN Result(es, Response(400, "ValidationError", None))
    ELSE LET ids == Descending(base[1]) IN
         Result(es, Response(200, "None",
                    Some([header |-> ExportHeader,
                          rows |-> [n \in 1 .. Len(ids) |-> ExportRow(es, ls, ids[n])]])))

\* TimeEntrySummaryEndpoint.get: the total of the issue's completed entries and
\* the rows per user, in each order the database may return them.
SummaryGet(es, en, slug, p, i) ==
    LET check == CheckTimeTrackingEnabled(en, p)
        ids == {id \in Objects(es) : es[id].issue = i /\ es[id].ended_at # None} IN
    IF check # None THEN {Result(es, check[1])}
    ELSE IF ~IssueFound(slug, p, i) THEN {Result(es, Response(404, "NotFound", None))}
    ELSE {Result(es, Response(200, "None",
                     Some([total_seconds |-> SumSeconds(es, ids), time_by_user |-> rows]))) :
             rows \in OrderedByTotal(Annotated(es, ids, "user"))}

\* query strings of a report: each group_by alone, and the filters under the
\* user and module modes
NoParams == [group_by |-> <<>>, from |-> <<>>, to |-> <<>>, project_id |-> <<>>,
             user_id |-> <<>>]

\* from and to: none, one, both, a range with no day in it, an empty text, a
\* text in another layout, a day no month has
DateRanges ==
    {<<<<>>, <<>>>>,
     <<<<"0001-01-02">>, <<>>>>,
     <<<<>>, <<"0001-01-01">>>>,
     <<<<"0001-01-02">>, <<"0001-1-2">>>>,
     <<<<"0001-01-02">>, <<"0001-01-01">>>>,
     <<<<"">>, <<>>>>,
     <<<<"01/02/0001">>, <<>>>>,
     <<<<>>, <<"0001-02-30">>>>}

\* project_id and user_id: none or one of them
EntryFilters == {<<<<>>, <<>>>>, <<<<"p1">>, <<>>>>, <<<<>>, <<"u1">>>>}

FilterParams(group_by) ==
    {[group_by |-> group_by, from |-> d[1], to |-> d[2],
      project_id |-> f[1], user_id |-> f[2]] : d \in DateRanges, f \in EntryFilters}

ReportParams ==
    {[NoParams EXCEPT !.group_by = g] :
        g \in {<<>>, <<"">>, <<"users">>} \cup {<<v>> : v \in ValidGroupBy}}
        \cup FilterParams(<<"user">>) \cup FilterParams(<<"module">>)

\* query strings of an export
ExportParams == FilterParams(<<>>)

\* the workspace and query string of a read: workspace w1 with each query, the
\* workspace without projects with none
ReportRequests == {<<"w1", q>> : q \in ReportParams} \cup {<<"w2", NoParams>>}
ExportRequests == {<<"w1", q>> : q \in ExportParams} \cup {<<"w2", NoParams>>}

\* request bodies that log work: a completed or an open manual entry
WorkData(i) ==
    {d \in [issue_id : {<<i>>},
            source : {<<>>},
            started_at : {<<>>},
            ended_at : {<<>>, <<Some(0)>>},
            duration_seconds : {<<1>>, <<2>>},
            is_billable : {<<>>}] :
        d.ended_at = <<>> => d.duration_seconds = <<1>>}

\* The module links the store can hold: an issue in two modules and one in
\* none, both issues in one module, each issue in its own.
LinkTables ==
    {[i \in Issues |-> IF i = "i1" THEN <<"m1", "m2">> ELSE <<>>],
     [i \in Issues |-> <<"m1">>],
     [i \in Issues |-> IF i = "i1" THEN <<"m1">> ELSE <<"m2">>]}

\* The request being answered, with the workspace and query string of a read.
Asked(op, u, slug, params) == <<[op |-> op, user |-> u, slug |-> slug, data |-> params]>>

InitReport ==
    /\ entries = <<>>
    /\ enabled = Projects
    /\ now = 0
    /\ nops = 0
    /\ last = NoRequest
    /\ req = <<>>
    /\ links \in LinkTables
    /\ chat = NoChat

HandleAsked(op, r, request) ==
    /\ nops < MaxOps
    /\ Len(r.entries) <= MaxEntries
    /\ entries' = r.entries
    /\ last' = [op |-> op, status |-> r.resp.status, error |-> r.resp.error,
                body |-> r.resp.body]
    /\ nops' = nops + 1
    /\ req' = request
    /\ UNCHANGED <<chat, links, enabled, now>>

\* A run is followed up to its first report, export or summary (req = <<>>
\* until then): they change nothing, so what follows one is what follows the
\* run without it.
LogWork(u, p, i, data) ==
    /\ req = <<>>
    /\ Handle("create", Create(entries, enabled, now, u, UrlSlug(p), p, i, data))

Report(u, slug, params) ==
    /\ req = <<>>
    /\ \E r \in ReportGet(entries, links, slug, params) :
          HandleAsked("report", r, Asked("report", u, slug, params))

Export(u, slug, params) ==
    /\ req = <<>>
    /\ HandleAsked("export", ExportGet(entries, links, slug, params),
                   Asked("export", u, slug, params))

Summarize(u, p, i) ==
    /\ req = <<>>
    /\ \E r \in SummaryGet(entries, enabled, UrlSlug(p), p, i) :
          HandleAsked("summary", r, Asked("summary", u, UrlSlug(p), NoParams))

Later ==
    /\ req = <<>>
    /\ Tick

NextReport ==
    \/ \E u \in Users, i \in Issues :
          LET p == IssueProject(i) IN
          \/ \E data \in WorkData(i) : LogWork(u, p, i, data)
          \/ Summarize(u, p, i)
    \/ \E request \in ReportRequests : Report("u1", request[1], request[2])
    \/ \E request \in ExportRequests : Export("u1", request[1], request[2])
    \/ Later

SpecReport == InitReport /\ [][NextReport]_vars

\* ---------------------------------------------------------------- vocabulary of the claims
\* The live entries of user u that are active: source TIMER, started, not ended.
ActiveIds(es, u) == {id \in Objects(es) : es[id].user = u /\ IsActive(es[id])}
ActiveOn(es, u, i) == {id \in ActiveIds(es, u) : es[id].issue = i}

\* Whole seconds from start to end, never negative.
WholeSeconds(start, end) ==
    IF end <= start THEN 0
    ELSE CHOOSE n \in 0 .. (end - start) :
            n * TicksPerSecond <= end - start /\ end - start < (n + 1) * TicksPerSecond

Disabled == Projects \ enabled

\* C1: each user has at most one active entry, across all issues, in every state
\* reached by start, stop, create, update and delete requests handled one at a time.
C1_AtMostOneActivePerUser ==
    \A u \in Users : Cardinality(ActiveIds(entries, u)) <= 1

\* C3: start(U, B) while U has an active entry on another issue A and none on B
\* stops the entry on A at now with its elapsed seconds, creates a running TIMER
\* entry on B (started now, duration 0), and leaves U with that one active entry.
C3_StartPreemptsOtherIssue ==
    \A u \in Users, b \in Issues, data \in TimerData :
        LET p == IssueProject(b)
            r == TimerPost(entries, enabled, now, u, UrlSlug(p), p, b, data)
            new == Len(entries) + 1 IN
        (/\ p \in enabled
         /\ ActiveOn(entries, u, b) = {}
         /\ ActiveIds(entries, u) # {})
        => /\ r.resp.status = 201
           /\ Len(r.entries) = new
           /\ \A a \in ActiveIds(entries, u) :
                 /\ r.entries[a].ended_at = Some(now)
                 /\ r.entries[a].duration_seconds =
                        WholeSeconds(entries[a].started_at[1], now)
           /\ r.entries[new].source = "timer"
           /\ r.entries[new].issue = b
           /\ r.entries[new].user = u
           /\ r.entries[new].started_at = Some(now)
           /\ r.entries[new].ended_at = None
           /\ r.entries[new].duration_seconds = 0
           /\ ActiveIds(r.entries, u) = {new}

\* C4: start(U, A) while U already has an active entry on A answers Conflict
\* (HTTP 400) and leaves the whole store as it was.
C4_StartSameIssueConflict ==
    \A u \in Users, a \in Issues, data \in TimerData :
        LET p == IssueProject(a)
            r == TimerPost(entries, enabled, now, u, UrlSlug(p), p, a, data) IN
        (p \in enabled /\ ActiveOn(entries, u, a) # {})
        => /\ r.resp.status = 400
           /\ r.resp.error = "Conflict"
           /\ r.entries = entries

\* A start was just refused with Conflict on the only entry of the store, a
\* running timer.
C4_Witness ==
    /\ last.op = "start"
    /\ last.status = 400
    /\ last.error = "Conflict"
    /\ Len(entries) = 1
    /\ IsActive(entries[1])
    /\ ~entries[1].deleted

\* C5: stop(U, I) while U has no active entry on I answers NotFound (HTTP 404)
\* and leaves the store as it was.
C5_StopWithoutActiveNotFound ==
    \A u \in Users, i \in Issues :
        LET p == IssueProject(i)
            r == TimerDelete(entries, enabled, now, u, UrlSlug(p), p, i) IN
        (p \in enabled /\ ActiveOn(entries, u, i) = {})
        => /\ r.resp.status = 404
           /\ r.resp.error = "NotFound"
           /\ r.entries = entries

\* C6: stop(U, I) while U has an active entry e on I sets e.ended_at to now and
\* e.duration_seconds to the whole seconds since e.started_at (at least 0); e is
\* then not active, U is idle, and no other entry changes.
C6_StopEndsActiveEntry ==
    \A u \in Users, i \in Issues :
        LET p == IssueProject(i)
            r == TimerDelete(entries, enabled, now, u, UrlSlug(p), p, i) IN
        \A e \in ActiveOn(entries, u, i) :
            p \in enabled
            => /\ r.resp.status = 200
               /\ r.entries[e].ended_at = Some(now)
               /\ r.entries[e].duration_seconds =
                      WholeSeconds(entries[e].started_at[1], now)
               /\ ~IsActive(r.entries[e])
               /\ ActiveIds(r.entries, u) = {}
               /\ \A id \in Ids(entries) \ {e} : r.entries[id] = entries[id]

\* The response FeatureDisabled (HTTP 403) with the store left as it was.
RefusedDisabled(r) ==
    /\ r.resp.status = 403
    /\ r.resp.error = "FeatureDisabled"
    /\ r.entries = entries

\* C8: while the project named by the request has time tracking disabled, timer
\* start, timer stop, entry list, create, update and delete each answer
\* FeatureDisabled (HTTP 403) and leave the store as it was.
C8_DisabledProjectRefusesAll ==
    \A u \in Users, target \in UrlTargets :
        LET p == target[1]
            i == target[2]
            slug == UrlSlug(p) IN
        p \in Disabled
        => /\ \A data \in TimerData :
                 RefusedDisabled(TimerPost(entries, enabled, now, u, slug, p, i, data))
           /\ RefusedDisabled(TimerDelete(entries, enabled, now, u, slug, p, i))
           /\ \A user_id \in {None, Some(u)} :
                 RefusedDisabled(List(entries, enabled, slug, p, i, user_id))
           /\ \A data \in CreateData(i) :
                 RefusedDisabled(Create(entries, enabled, now, u, slug, p, i, data))
           /\ \A pk \in UrlPks, data \in UpdateData :
                 RefusedDisabled(PartialUpdate(entries, enabled, u, slug, p, i, pk, data))
           /\ \A pk \in UrlPks :
                 RefusedDisabled(Destroy(entries, enabled, u, slug, p, i, pk))

\* A stop was just refused with FeatureDisabled while a timer is running in a
\* project whose time tracking is disabled.
C8_Witness ==
    /\ last.op = "stop"
    /\ last.status = 403
    /\ last.error = "FeatureDisabled"
    /\ \E id \in Objects(entries) :
          IsActive(entries[id]) /\ entries[id].project \in Disabled

\* C9: get_active answers FeatureDisabled (HTTP 403) when the issue's project has
\* time tracking disabled.
C9_GetActiveChecksFeature ==
    \A u \in Users, i \in Issues :
        LET p == IssueProject(i)
            r == ActiveTimerGet(entries, u, UrlSlug(p), p, i) IN
        p \in Disabled => r.resp.status = 403 /\ r.resp.error = "FeatureDisabled"

\* Payloads the validators reject: no duration for a manual entry, no issue_id,
\* a negative duration.
InvalidCreateData(i) ==
    [issue_id : {<<>>, <<i>>},
     source : {<<>>},
     started_at : {<<>>},
     ended_at : {<<>>},
     duration_seconds : {<<>>, <<0>>, <<0 - 1>>},
     is_billable : {<<>>}]
InvalidUpdateData ==
    {[NoData EXCEPT !.duration_seconds = Some(0 - 1)],
     [NoData EXCEPT !.started_at = Some(Some(MaxTime)), !.ended_at = Some(Some(0))]}

\* C10: the FeatureDisabled check comes before every other check. With time
\* tracking disabled, start, stop, create, update and delete answer
\* FeatureDisabled when the issue is missing, the entry is missing, the actor is
\* neither owner nor admin, the payload is invalid or a timer already runs on the
\* issue: never NotFound, Forbidden, ValidationError or Conflict.
C10_FeatureCheckFirst ==
    \A u \in Users, p \in Disabled, i \in UrlIssues :
        LET slug == UrlSlug(p) IN
        /\ \A data \in TimerData :
              TimerPost(entries, enabled, now, u, slug, p, i, data).resp.error
                  = "FeatureDisabled"
        /\ TimerDelete(entries, enabled, now, u, slug, p, i).resp.error = "FeatureDisabled"
        /\ \A data \in CreateData(i) \cup InvalidCreateData(i) :
              Create(entries, enabled, now, u, slug, p, i, data).resp.error
                  = "FeatureDisabled"
        /\ \A pk \in 1 .. (MaxEntries + 1), data \in UpdateData \cup InvalidUpdateData :
              PartialUpdate(entries, enabled, u, slug, p, i, pk, data).resp.error
                  = "FeatureDisabled"
        /\ \A pk \in 1 .. (MaxEntries + 1) :
              Destroy(entries, enabled, u, slug, p, i, pk).resp.error = "FeatureDisabled"

\* A start was just refused with FeatureDisabled in the one disabled project,
\* where the only entry of the store is a running timer: the request named that
\* timer's issue (Conflict otherwise), another issue of the project or none.
C10_Witness ==
    /\ last.op = "start"
    /\ last.error = "FeatureDisabled"
    /\ Len(entries) = 1
    /\ IsActive(entries[1])
    /\ Disabled = {entries[1].project}

\* C2: two concurrent starts by one user on two different issues, interleaved at
\* each store read and write, leave that user with at most one active entry once
\* both requests have completed.
C2_ConcurrentStartsOneActive ==
    (/\ AllDone
     /\ req[1].user = req[2].user
     /\ req[1].issue # req[2].issue)
    => Cardinality(ActiveIds(entries, req[1].user)) <= 1

\* C7: of two concurrent starts by one user on the same issue at most one creates
\* an entry, the other answers Conflict, and at most one active entry exists for
\* that (user, issue) afterwards.
C7_ConcurrentStartsSameIssue ==
    (/\ AllDone
     /\ req[1].user = req[2].user
     /\ req[1].issue = req[2].issue)
    => /\ \E k \in Requests : req[k].status = 400 /\ req[k].error = "Conflict"
       /\ Cardinality(ActiveOn(entries, req[1].user, req[1].issue)) <= 1

\* ---------------------------------------------------------------- entry validation
\* The step answers a request of the given kind.
Answered(op) == nops' = nops + 1 /\ req' # <<>> /\ req'[1].op = op

\* The payload asks for a MANUAL entry: source "manual" or left to its default.
AsksManual(data) == GetOr(data.source, "manual") = "manual"

\* Both instants of the payload are given and not null.
HasPair(data) == Get(data.started_at) # None /\ Get(data.ended_at) # None

\* The row a successful create has just added.
Created(es) == es[Len(es)]

\* C11: a create whose payload asks for a MANUAL entry with duration_seconds = 0,
\* or with neither a duration_seconds nor a start/end pair, answers
\* ValidationError (HTTP 400) and adds no entry.
C11_ManualZeroDurationRejected ==
    [][LET data == req'[1].data IN
       (/\ Answered("create")
        /\ AsksManual(data)
        /\ \/ data.duration_seconds = <<0>>
           \/ data.duration_seconds = <<>> /\ ~HasPair(data))
       => /\ last'.status = 400
          /\ last'.error = "ValidationError"
          /\ entries' = entries]_vars

\* A create with source "manual" and duration_seconds 0 was just refused, and
\* the store is still empty.
C11_Witness ==
    /\ last.op = "create"
    /\ last.status = 400
    /\ last.error = "ValidationError"
    /\ req[1].data.source = <<"manual">>
    /\ req[1].data.duration_seconds = <<0>>
    /\ entries = <<>>

\* C12: every entry a create stores with source MANUAL has duration_seconds > 0
\* when it is created, whatever source, instants and duration the payload held.
C12_StoredManualHasPositiveDuration ==
    [][(Answered("create") /\ last'.status = 201)
       => (Created(entries').source = "manual"
           => Created(entries').duration_seconds > 0)]_vars

\* C13: a create whose payload asks for a MANUAL entry with started_at <= ended_at
\* and no duration_seconds succeeds and stores the whole seconds between the two
\* instants as duration_seconds.
C13_ManualDurationDerivedOnCreate ==
    [][LET data == req'[1].data IN
       (/\ Answered("create")
        /\ AsksManual(data)
        /\ HasPair(data)
        /\ data.started_at[1][1] <= data.ended_at[1][1]
        /\ data.duration_seconds = <<>>)
       => /\ last'.status = 201
          /\ Len(entries') = Len(entries) + 1
          /\ Created(entries').duration_seconds =
                 WholeSeconds(data.started_at[1][1], data.ended_at[1][1])]_vars

\* C14: in every reachable state every stored entry with both started_at and
\* ended_at set has started_at <= ended_at.
C14_StoredRangeOrdered ==
    \A id \in Objects(entries) :
        (entries[id].started_at # None /\ entries[id].ended_at # None)
        => entries[id].started_at[1] <= entries[id].ended_at[1]

\* C15: duration_seconds of every stored entry is at least 0 in every state
\* reached by create, update, start and stop requests.
C15_DurationNeverNegative ==
    \A id \in Ids(entries) : entries[id].duration_seconds >= 0

\* A stop was just answered at an instant before the timer's started_at: the
\* entry ends before it starts and its duration is 0.
C15_Witness ==
    /\ last.op = "stop"
    /\ last.status = 200
    /\ \E id \in Objects(entries) :
          /\ entries[id].ended_at # None
          /\ entries[id].started_at # None
          /\ entries[id].ended_at[1] < entries[id].started_at[1]
          /\ entries[id].duration_seconds = 0

\* The entry is one the update and delete URLs of issue i1 reach.
InUrl(e) == ~e.deleted /\ e.workspace = "w1" /\ e.project = "p1" /\ e.issue = "i1"

\* The actor may change the entry: its user, or an admin of the project.
MayChange(u, e) == e.user = u \/ IsProjectAdmin(u, e.project)

\* A payload key and the stored value taken together: the payload's value when
\* the key is present, the stored one otherwise.
Supplied(field, stored) == IF field = <<>> THEN stored ELSE field[1]

\* Neither instant of the payload is given as null.
NoNullInstant(data) == data.started_at # <<None>> /\ data.ended_at # <<None>>

\* started_at <= ended_at, when both are set.
Ordered(start, end) == (start # None /\ end # None) => start[1] <= end[1]

\* C16: an update whose payload gives a positive duration_seconds stores exactly
\* that value, also when started_at and ended_at are both set and lie a different
\* number of seconds apart; it is accepted whenever the merged instants are in
\* order.
C16_ExplicitDurationWins ==
    [][LET data == req'[1].data
           pk == req'[1].pk
           e == entries[pk] IN
       (/\ Answered("update")
        /\ data.duration_seconds # <<>>
        /\ data.duration_seconds[1] > 0)
       => /\ last'.status = 200 => entries'[pk].duration_seconds = data.duration_seconds[1]
          /\ (/\ InUrl(e)
              /\ MayChange(req'[1].user, e)
              /\ NoNullInstant(data)
              /\ Ordered(Supplied(data.started_at, e.started_at),
                         Supplied(data.ended_at, e.ended_at)))
             => last'.status = 200]_vars

\* An update just stored a positive duration on an entry whose two instants are
\* set and lie a different number of seconds apart.
C16_Witness ==
    /\ last.op = "update"
    /\ last.status = 200
    /\ req[1].data.duration_seconds = <<1>>
    /\ LET e == entries[req[1].pk] IN
          /\ e.started_at # None
          /\ e.ended_at # None
          /\ e.duration_seconds = 1
          /\ WholeSeconds(e.started_at[1], e.ended_at[1]) # 1

\* C17: an accepted update changes only the fields its payload holds: every
\* other field of the entry and every other entry keep their values, and so does
\* duration_seconds when the payload holds neither a duration nor an instant.
C17_UpdateWritesOnlyPayloadFields ==
    [][LET data == req'[1].data
           pk == req'[1].pk
           old == entries[pk]
           new == entries'[pk] IN
       (Answered("update") /\ last'.status = 200)
       => /\ data.started_at = <<>> => new.started_at = old.started_at
          /\ data.ended_at = <<>> => new.ended_at = old.ended_at
          /\ (/\ data.duration_seconds = <<>>
              /\ data.started_at = <<>>
              /\ data.ended_at = <<>>)
             => new.duration_seconds = old.duration_seconds
          /\ data.is_billable = <<>> => new.is_billable = old.is_billable
          /\ \A id \in Ids(entries) \ {pk} : entries'[id] = entries[id]]_vars

\* C18: update applies the range and derivation rule to the merged instants. For
\* a payload whose instants are absent or given (not null), each absent one is
\* taken from the stored entry; merged started_at > ended_at answers
\* ValidationError and leaves the entry as it was; otherwise a payload with
\* duration_seconds 0 stores the whole seconds between the merged instants.
C18_UpdateRuleOnMergedValues ==
    [][LET data == req'[1].data
           pk == req'[1].pk
           e == entries[pk]
           start == Supplied(data.started_at, e.started_at)
           end == Supplied(data.ended_at, e.ended_at) IN
       (/\ Answered("update")
        /\ InUrl(e)
        /\ MayChange(req'[1].user, e)
        /\ NoNullInstant(data)
        /\ start # None
        /\ end # None
        /\ data.duration_seconds # <<>> => data.duration_seconds[1] >= 0)
       => IF start[1] > end[1]
          THEN /\ last'.status = 400
               /\ last'.error = "ValidationError"
               /\ entries' = entries
          ELSE /\ last'.status = 200
               /\ entries'[pk].started_at = start
               /\ entries'[pk].ended_at = end
               /\ data.duration_seconds = <<0>>
                  => entries'[pk].duration_seconds = WholeSeconds(start[1], end[1])]_vars

\* An update giving only ended_at was just refused: the instant lies before the
\* stored started_at of an entry whose own instants are in order.
C18_Witness ==
    /\ last.op = "update"
    /\ last.status = 400
    /\ last.error = "ValidationError"
    /\ req[1].data.started_at = <<>>
    /\ req[1].data.ended_at # <<>>
    /\ req[1].data.ended_at[1] # None
    /\ req[1].data.duration_seconds = <<>>
    /\ LET e == entries[req[1].pk] IN
          /\ InUrl(e)
          /\ MayChange(req[1].user, e)
          /\ e.started_at # None
          /\ e.started_at[1] > req[1].data.ended_at[1][1]
          /\ Ordered(e.started_at, e.ended_at)

\* C19: an update or delete of an entry succeeds only for the entry's user or an
\* active admin of the project; for any other actor it answers Forbidden
\* (HTTP 403) and leaves the entry as it was, not deleted.
C19_OnlyOwnerOrAdminMutates ==
    [][LET pk == req'[1].pk
           e == entries[pk]
           u == req'[1].user IN
       ((Answered("update") \/ Answered("delete")) /\ InUrl(e))
       => /\ last'.status \in {200, 204} => MayChange(u, e)
          /\ ~MayChange(u, e)
             => /\ last'.status = 403
                /\ last'.error = "Forbidden"
                /\ entries' = entries]_vars

\* A delete by an actor who is neither the entry's user nor an admin was just
\* refused, and the entry is still there.
C19_Witness ==
    /\ last.op = "delete"
    /\ last.status = 403
    /\ last.error = "Forbidden"
    /\ LET e == entries[req[1].pk] IN
          /\ InUrl(e)
          /\ ~MayChange(req[1].user, e)

\* C20: in every reachable state each entry's workspace and project are those of
\* its issue.
C20_WorkspaceProjectFollowIssue ==
    \A id \in Ids(entries) :
        /\ entries[id].project = IssueProject(entries[id].issue)
        /\ entries[id].workspace = IssueWorkspace(entries[id].issue)

\* ---------------------------------------------------------------- reads
\* C21: get_active(U, I) changes no state and returns an entry exactly when U has
\* an active entry on issue I, that entry, and none otherwise.
C21_GetActiveReturnsActiveEntry ==
    \A u \in Users, i \in Issues :
        LET p == IssueProject(i)
            r == ActiveTimerGet(entries, u, UrlSlug(p), p, i) IN
        /\ r.entries = entries
        /\ r.resp.status = 200
        /\ IF ActiveOn(entries, u, i) = {} THEN r.resp.body = None
           ELSE r.resp.body # None /\ r.resp.body[1] \in ActiveOn(entries, u, i)

\* ---------------------------------------------------------------- derived fields and defaults
\* Every combination of source, started_at and ended_at an entry can hold.
EntryShapes ==
    [source : {"manual", "timer"},
     started_at : {None, Some(0)},
     ended_at : {None, Some(MaxTime)}]

\* C27: for every entry, stored or not, the derived is_active field is true
\* exactly when source = TIMER, started_at is set and ended_at is null.
C27_IsActiveDerivation ==
    \A e \in EntryShapes \cup {entries[id] : id \in Ids(entries)} :
        IsActive(e) <=> (e.source = "timer" /\ e.started_at # None /\ e.ended_at = None)

\* The store holds a running timer, which is active, next to a MANUAL entry
\* with started_at set and no ended_at, which is not.
C27_Witness ==
    \E a, b \in Ids(entries) :
        /\ entries[a].source = "timer" /\ entries[a].started_at # None
        /\ entries[a].ended_at = None /\ IsActive(entries[a])
        /\ entries[b].source = "manual" /\ entries[b].started_at # None
        /\ entries[b].ended_at = None /\ ~IsActive(entries[b])

\* C28: the entry a create stores has the source of the payload, MANUAL when
\* the payload has none: a payload with source = TIMER is stored with source =
\* TIMER.
C28_CreateKeepsPayloadSource ==
    [][(Answered("create") /\ last'.status = 201)
       => Created(entries').source = GetOr(req'[1].data.source, "manual")]_vars

\* C29: for every payload with source = TIMER and no started_at (absent or
\* null), TimeEntrySerializer.validate raises a ValidationError on started_at,
\* while TimeEntryCreateSerializer.validate accepts it and sets started_at to
\* the current time, changing nothing else.
C29_ValidatorsDifferOnTimerWithoutStart ==
    \A data \in CreatePayloads :
        (data.source = <<"timer">> /\ Get(data.started_at) = None)
        => /\ TimeEntrySerializerValidate(data).error = "started_at"
           /\ TimeEntrySerializerValidate(data).data = None
           /\ CreateValidate(data, now)
                  = Some([data EXCEPT !.started_at = Some(Some(now))])

\* A create with source = TIMER and no started_at was just accepted, and the
\* row it stored starts at the time of the request.
C29_Witness ==
    /\ last.op = "create"
    /\ last.status = 201
    /\ req # <<>>
    /\ req[1].data.source = <<"timer">>
    /\ req[1].data.started_at = <<>>
    /\ now > 0
    /\ Created(entries).started_at = Some(now)

\* ---------------------------------------------------------------- reports
\* The texts that name a calendar day, year first, and the day each names.
DayTexts == {"0001-01-01", "0001-01-02", "0001-1-2"}
DayNamed(text) == IF text = "0001-01-01" THEN 0 ELSE 1

\* The base set of a report or export of a workspace: its completed entries,
\* narrowed by the project, the user and the days [from, to] of creation, both
\* ends included.
BaseSet(slug, q) ==
    {id \in Ids(entries) :
        /\ ~entries[id].deleted
        /\ entries[id].workspace = slug
        /\ entries[id].ended_at # None
        /\ q.project_id # <<>> => entries[id].project = q.project_id[1]
        /\ q.user_id # <<>> => entries[id].user = q.user_id[1]
        /\ Given(q.from) => DateOf(entries[id].created_at) >= DayNamed(q.from[1])
        /\ Given(q.to) => DateOf(entries[id].created_at) <= DayNamed(q.to[1])}

\* Every date the query gives names a calendar day.
DatesValid(q) ==
    /\ Given(q.from) => q.from[1] \in DayTexts
    /\ Given(q.to) => q.to[1] \in DayTexts

\* The rows of the report just returned.
RowsOf(response) == response.body[1]

\* C22: a report with group_by = user has exactly one row per user owning an
\* entry of the base set; the row's total_seconds is the sum of those entries'
\* duration_seconds and its entry_count their number; entries without ended_at
\* are in no row.
C22_UserReportRows ==
    [][LET q == req'[1].data
           rows == RowsOf(last')
           base == BaseSet(req'[1].slug, q)
           Of(u) == {id \in base : entries[id].user = u} IN
       (/\ Answered("report")
        /\ GetOr(q.group_by, "user") = "user"
        /\ DatesValid(q))
       => /\ last'.status = 200
          /\ Len(rows) = Cardinality({u \in Users : Of(u) # {}})
          /\ \A u \in Users :
                Of(u) # {}
                => \E n \in 1 .. Len(rows) :
                      /\ rows[n].key = <<u>>
                      /\ rows[n].total_seconds = SumSeconds(entries, Of(u))
                      /\ rows[n].entry_count = Cardinality(Of(u))]_vars

\* A report by user was just returned whose one row sums two entries of a user.
C22_Witness ==
    /\ last.op = "report"
    /\ last.status = 200
    /\ req[1].data.group_by = <<"user">>
    /\ Len(RowsOf(last)) = 1
    /\ RowsOf(last)[1].entry_count = 2
    /\ RowsOf(last)[1].total_seconds = 3

\* The lowest id among the entries of the base set that fall under a row.
FirstEntered(q, slug, key) ==
    LET group_by == GetOr(q.group_by, "user")
        ids == {id \in BaseSet(slug, q) :
                   IF group_by = "module"
                   THEN FirstModule(links, entries[id].issue) = key
                   ELSE GroupKey(entries[id], group_by) = key} IN
    CHOOSE id \in ids : \A other \in ids : id <= other

\* The place of a key in key order.
KeyOrder == <<"i1", "i2", "m1", "m2", "p1", "p2", "u1", "u2">>
KeyRank(key) ==
    CHOOSE n \in 1 .. Len(KeyOrder) : KeyOrder[n] = key[1]

\* C23: in every group_by mode the rows of a report come by total_seconds, never
\* increasing, and rows of equal total_seconds come in insertion order (the row
\* whose first entry is older first) or in key order.
C23_ReportRowsOrdered ==
    [][LET q == req'[1].data
           rows == RowsOf(last')
           Tied(a, b) == a < b /\ rows[a].total_seconds = rows[b].total_seconds IN
       (Answered("report") /\ last'.status = 200)
       => /\ \A a, b \in 1 .. Len(rows) :
                a < b => rows[a].total_seconds >= rows[b].total_seconds
          /\ \/ \A a, b \in 1 .. Len(rows) :
                   Tied(a, b) => FirstEntered(q, req'[1].slug, rows[a].key)
                                    < FirstEntered(q, req'[1].slug, rows[b].key)
             \/ \A a, b \in 1 .. Len(rows) :
                   Tied(a, b) => KeyRank(rows[a].key) < KeyRank(rows[b].key)]_vars

\* C24: in a report with group_by = module every entry of the base set counts in
\* exactly one row, that of the first module linked to its issue, or in none
\* when its issue has no module; no row has a null module id, and the rows'
\* total_seconds add up to the duration_seconds of the base-set entries whose
\* issue has a module.
C24_ModuleReportRows ==
    [][LET q == req'[1].data
           rows == RowsOf(last')
           base == BaseSet(req'[1].slug, q)
           In(m) == {id \in base : links[entries[id].issue] # <<>>
                                    /\ links[entries[id].issue][1] = m} IN
       (Answered("report") /\ q.group_by = <<"module">> /\ last'.status = 200)
       => /\ Len(rows) = Cardinality({m \in Modules : In(m) # {}})
          /\ \A n \in 1 .. Len(rows) : rows[n].key # None /\ rows[n].key[1] \in Modules
          /\ \A m \in Modules :
                In(m) # {}
                => \E n \in 1 .. Len(rows) :
                      /\ rows[n].key = Some(m)
                      /\ rows[n].total_seconds = SumSeconds(entries, In(m))
                      /\ rows[n].entry_count = Cardinality(In(m))]_vars

\* A report by module was just returned over two completed entries, one on an
\* issue linked to two modules and one on an issue linked to none: its one row
\* is the first module's, with the first entry alone.
C24_Witness ==
    /\ last.op = "report"
    /\ last.status = 200
    /\ req[1].data.group_by = <<"module">>
    /\ Cardinality(BaseSet("w1", req[1].data)) = 2
    /\ links["i1"] = <<"m1", "m2">>
    /\ links["i2"] = <<>>
    /\ \E a, b \in Ids(entries) : entries[a].issue = "i1" /\ entries[b].issue = "i2"
    /\ Len(RowsOf(last)) = 1
    /\ RowsOf(last)[1].key = Some("m1")
    /\ RowsOf(last)[1].entry_count = 1

\* C25: a report whose group_by is none of user, work_item, project, module, or
\* whose from or to is given and names no calendar day, answers ValidationError
\* (HTTP 400), carries no report data and changes no state.
C25_ReportRejectsBadQuery ==
    [][LET q == req'[1].data IN
       (/\ Answered("report")
        /\ \/ GetOr(q.group_by, "user") \notin ValidGroupBy
           \/ ~DatesValid(q))
       => /\ last'.status = 400
          /\ last'.error = "ValidationError"
          /\ last'.body = None
          /\ entries' = entries
          /\ enabled' = enabled
          /\ links' = links]_vars

\* A report was just refused for a to that names no day, with a valid group_by
\* and a completed entry in the store.
C25_Witness ==
    /\ last.op = "report"
    /\ last.status = 400
    /\ req[1].data.group_by = <<"user">>
    /\ req[1].data.to = <<"0001-02-30">>
    /\ req[1].data.from = <<>>
    /\ \E id \in Ids(entries) : entries[id].ended_at # None

\* C26: an export has one data row per entry of the base set, no more and no
\* fewer, the most recently created first.
C26_ExportRows ==
    [][LET q == req'[1].data
           rows == RowsOf(last').rows
           base == BaseSet(req'[1].slug, q) IN
       (Answered("export") /\ DatesValid(q))
       => /\ last'.status = 200
          /\ Len(rows) = Cardinality(base)
          /\ {rows[n].entry : n \in 1 .. Len(rows)} = base
          /\ \A a, b \in 1 .. Len(rows) : a < b => rows[a].entry > rows[b].entry]_vars

\* An export over the days from 0001-01-02 on was just returned with one row,
\* while the store holds a completed entry of the day before too.
C26_Witness ==
    /\ last.op = "export"
    /\ last.status = 200
    /\ req[1].data.from = <<"0001-01-02">>
    /\ Len(RowsOf(last).rows) = 1
    /\ \E id \in Ids(entries) :
          entries[id].ended_at # None /\ DateOf(entries[id].created_at) = 0

\* ---------------------------------------------------------------- deletion
\* The store with row pk turned into a live row of nobody, on no issue of no
\* workspace: a row no request can ask for.
Erased(es, pk) ==
    [es EXCEPT ![pk] = [@ EXCEPT !.deleted = FALSE, !.user = "nobody", !.issue = "gone",
                                 !.project = "gone", !.workspace = "gone"]]

\* The responses of a set of outcomes.
Responses(rs) == {r.resp : r \in rs}

\* Two outcomes of a start or stop answer alike and leave alike every row but pk.
AlikeButFor(r, other, pk) ==
    /\ r.resp = other.resp
    /\ Len(r.entries) = Len(other.entries)
    /\ \A id \in Ids(r.entries) \ {pk} : r.entries[id] = other.entries[id]

\* Row pk is excluded from every query of the store es: list, get_active,
\* summary, report and export answer as they would without the row, and start
\* and stop answer and act as they would without it, leaving the row untouched.
Excluded(es, en, t, pk) ==
    LET gone == Erased(es, pk) IN
    /\ \A u \in Users, target \in UrlTargets :
          LET p == target[1]
              i == target[2]
              slug == UrlSlug(p) IN
          /\ \A user_id \in {None, Some(u)} :
                List(es, en, slug, p, i, user_id).resp = List(gone, en, slug, p, i, user_id).resp
          /\ ActiveTimerGet(es, u, slug, p, i).resp = ActiveTimerGet(gone, u, slug, p, i).resp
          /\ Responses(SummaryGet(es, en, slug, p, i))
                 = Responses(SummaryGet(gone, en, slug, p, i))
          /\ \A data \in TimerData :
                /\ AlikeButFor(TimerPost(es, en, t, u, slug, p, i, data),
                               TimerPost(gone, en, t, u, slug, p, i, data), pk)
                /\ TimerPost(es, en, t, u, slug, p, i, data).entries[pk] = es[pk]
          /\ AlikeButFor(TimerDelete(es, en, t, u, slug, p, i),
                         TimerDelete(gone, en, t, u, slug, p, i), pk)
          /\ TimerDelete(es, en, t, u, slug, p, i).entries[pk] = es[pk]
    /\ \A request \in ReportRequests :
          Responses(ReportGet(es, links, request[1], request[2]))
              = Responses(ReportGet(gone, links, request[1], request[2]))
    /\ \A request \in ExportRequests :
          ExportGet(es, links, request[1], request[2]).resp
              = ExportGet(gone, links, request[1], request[2]).resp

\* C30: a delete that succeeds (the caller is the owner or a project admin)
\* turns an entry that queries saw into one excluded from every query, and an
\* entry once deleted is excluded in every later state: it is in no list,
\* get_active, summary, report or export result, and start's conflict and
\* preemption checks and stop neither count nor touch it.
C30_DeletedEntryExcluded ==
    [][/\ (nops' = nops + 1 /\ last'.op = "delete" /\ last'.status = 204)
          => \E pk \in Ids(entries) :
                /\ ~Excluded(entries, enabled, now, pk)
                /\ Excluded(entries', enabled', now', pk)
       /\ \A pk \in Ids(entries') :
             entries'[pk].deleted => Excluded(entries', enabled', now', pk)]_vars

\* A delete just succeeded on a completed entry with a duration, which a
\* summary, report or export would count were it not excluded.
C30_Witness ==
    /\ last.op = "delete"
    /\ last.status = 204
    /\ \E pk \in Ids(entries) :
          /\ entries[pk].deleted
          /\ entries[pk].ended_at # None
          /\ entries[pk].duration_seconds > 0
          /\ ~Excluded([entries EXCEPT ![pk].deleted = FALSE], enabled, now, pk)

\* ---------------------------------------------------------------- read-only operations
\* C31: report, export, summary and list leave the table as it is, whatever the
\* request and whether it is answered or refused: a step that answers a report,
\* an export or a summary changes no entry and no field of one, and so does
\* every list request on the table the step leaves.
C31_ReadsChangeNothing ==
    [][/\ (Answered("report") \/ Answered("export") \/ Answered("summary"))
          => (entries' = entries /\ enabled' = enabled /\ links' = links)
       /\ \A target \in UrlTargets, user_id \in {None} \cup {Some(u) : u \in Users} :
             List(entries', enabled', UrlSlug(target[1]), target[1], target[2], user_id).entries
                 = entries']_vars

\* A report was just refused for its group_by while the table holds two
\* entries, one completed and one not.
C31_Witness ==
    /\ last.op = "report"
    /\ last.status = 400
    /\ req[1].data.group_by = <<"users">>
    /\ Len(entries) = 2
    /\ \E a, b \in Ids(entries) : entries[a].ended_at # None /\ entries[b].ended_at = None

\* ---------------------------------------------------------------- what counts as active
\* The MANUAL entries with started_at set and no ended_at.
OpenManual(es) ==
    {id \in Objects(es) :
        es[id].source = "manual" /\ es[id].started_at # None /\ es[id].ended_at = None}

\* C32: only TIMER entries count as active for the timer endpoints. With a MANUAL
\* entry m that has started_at and no ended_at in the table: a start answers
\* Conflict only when the caller has an active (TIMER) entry on the issue, and
\* leaves m's ended_at and duration_seconds as they were; get_active never
\* returns m; stop never stops m.
C32_OnlyTimerEntriesActive ==
    \A m \in OpenManual(entries), u \in Users, i \in Issues :
        LET p == IssueProject(i)
            started == {TimerPost(entries, enabled, now, u, UrlSlug(p), p, i, data) :
                           data \in TimerData}
            stopped == TimerDelete(entries, enabled, now, u, UrlSlug(p), p, i) IN
        /\ \A r \in started :
              /\ r.resp.error = "Conflict" => ActiveOn(entries, u, i) # {}
              /\ r.entries[m].ended_at = entries[m].ended_at
              /\ r.entries[m].duration_seconds = entries[m].duration_seconds
        /\ ActiveTimerGet(entries, u, UrlSlug(p), p, i).resp.body # Some(m)
        /\ stopped.resp.body # Some(m)
        /\ stopped.entries[m] = entries[m]

\* C33: an entry whose ended_at is set keeps an ended_at in every later state,
\* whatever request is handled: start, stop, or an update, also one whose
\* payload holds ended_at = null.
C33_CompletedStaysCompleted ==
    [][\A id \in Ids(entries) :
          entries[id].ended_at # None => entries'[id].ended_at # None]_vars

\* C34: no request changes an entry of a project whose time tracking is
\* disabled; a start in an enabled project leaves the caller's running timers
\* in disabled projects as they were.
C34_DisabledProjectEntriesUntouched ==
    [][\A id \in Ids(entries) :
          entries[id].project \in Disabled => entries'[id] = entries[id]]_vars

\* ---------------------------------------------------------------- timer intervals
\* Entry a is over, at the latest, when entry b starts.
EndsBefore(a, b) == a.ended_at # None /\ a.ended_at[1] <= b.started_at[1]

\* C35: with start and stop requests alone, the intervals [started_at, ended_at)
\* of one user's TIMER entries never overlap; the entries a start preempts end
\* at the instant the new entry starts; a running entry starts no earlier than
\* every completed entry of its user ends.
C35_TimerIntervalsDisjoint ==
    [][/\ \A a, b \in Ids(entries') :
             (/\ a # b
              /\ entries'[a].user = entries'[b].user
              /\ entries'[a].source = "timer"
              /\ entries'[b].source = "timer")
             => /\ EndsBefore(entries'[a], entries'[b]) \/ EndsBefore(entries'[b], entries'[a])
                /\ (entries'[a].ended_at = None /\ entries'[b].ended_at # None)
                   => entries'[b].ended_at[1] <= entries'[a].started_at[1]
       /\ (nops' = nops + 1 /\ last'.op = "start" /\ last'.status = 201)
          => \A id \in Ids(entries) :
                (entries[id].user = Created(entries').user /\ entries[id].ended_at = None)
                => entries'[id].ended_at = Created(entries').started_at]_vars

\* A start has just preempted the caller's timer on another issue, which ran
\* for a while: it ends where the new one starts.
C35_Witness ==
    /\ last.op = "start"
    /\ last.status = 201
    /\ Len(entries) = 2
    /\ entries[1].user = entries[2].user
    /\ entries[1].started_at = Some(0)
    /\ entries[1].ended_at = Some(MaxTime)
    /\ entries[2].started_at = Some(MaxTime)
    /\ entries[2].ended_at = None

\* C36: a stop that succeeded cannot be repeated: the same user's next stop on
\* the same issue, with no start in between, answers NotFound (HTTP 404); and
\* no start or stop changes the ended_at or the duration_seconds of an entry
\* that has an ended_at.
C36_StopNotRepeatable ==
    [][/\ (nops' = nops + 1 /\ last'.op = "stop" /\ last'.status = 200)
          => LET e == entries'[last'.body[1]] IN
             \A target \in UrlTargets :
                 (target[2] = e.issue /\ target[1] \in enabled')
                 => LET again == TimerDelete(entries', enabled', now', e.user,
                                             UrlSlug(target[1]), target[1], e.issue) IN
                    again.resp.status = 404 /\ again.resp.error = "NotFound"
       /\ (nops' = nops + 1 /\ last'.op \in {"start", "stop"})
          => \A id \in Ids(entries) :
                entries[id].ended_at # None
                => /\ entries'[id].ended_at = entries[id].ended_at
                   /\ entries'[id].duration_seconds = entries[id].duration_seconds]_vars

\* ---------------------------------------------------------------- report totals
\* The sums of total_seconds and of entry_count over the rows of a report.
RECURSIVE TotalOver(_)
TotalOver(rows) ==
    IF rows = <<>> THEN 0 ELSE Head(rows).total_seconds + TotalOver(Tail(rows))
RECURSIVE CountOver(_)
CountOver(rows) ==
    IF rows = <<>> THEN 0 ELSE Head(rows).entry_count + CountOver(Tail(rows))

\* The same query with another group_by.
GroupedBy(q, mode) == [q EXCEPT !.group_by = mode]

\* C37: over one table, for the same workspace and the same project_id, user_id,
\* from and to filters, the reports by user, by work item and by project add up
\* to the same total_seconds and the same entry_count: the duration_seconds and
\* the number of the entries of the base set; and the export has as many data
\* rows as the entry_count adds up to.
C37_ReportModesAgree ==
    [][LET q == req'[1].data
           slug == req'[1].slug
           base == BaseSet(slug, q) IN
       (Answered("report") /\ q.group_by = <<"user">> /\ last'.status = 200)
       => /\ TotalOver(RowsOf(last')) = SumSeconds(entries, base)
          /\ CountOver(RowsOf(last')) = Cardinality(base)
          /\ \A mode \in {"work_item", "project"} :
                \A r \in ReportGet(entries, links, slug, GroupedBy(q, <<mode>>)) :
                    /\ r.resp.status = 200
                    /\ TotalOver(RowsOf(r.resp)) = TotalOver(RowsOf(last'))
                    /\ CountOver(RowsOf(r.resp)) = CountOver(RowsOf(last'))
          /\ LET export == ExportGet(entries, links, slug, GroupedBy(q, <<>>)).resp IN
             /\ export.status = 200
             /\ Len(RowsOf(export).rows) = CountOver(RowsOf(last'))]_vars

\* A report by user was just returned with one row for two completed entries of
\* one user on two issues of two projects, next to which the reports by work
\* item and by project have two rows each.
C37_Witness ==
    /\ last.op = "report"
    /\ last.status = 200
    /\ req[1].data.group_by = <<"user">>
    /\ Len(RowsOf(last)) = 1
    /\ Len(entries) = 2
    /\ BaseSet(req[1].slug, req[1].data) = {1, 2}
    /\ entries[1].issue # entries[2].issue
    /\ entries[1].project # entries[2].project

\* ---------------------------------------------------------------- stop against update
\* C38: when a stop and an update of the same running entry have both been
\* answered, however their loads and saves interleaved, and the stop answered
\* 200, the entry has the ended_at the stop wrote and the duration_seconds the
\* stop computed.
C38_StopNotLostToUpdate ==
    (/\ req.stop.pc = "done"
     /\ req.patch.pc = "done"
     /\ req.stop.status = 200)
    => /\ entries[1].ended_at = Some(req.stop.t)
       /\ entries[1].duration_seconds = WholeSeconds(entries[1].started_at[1], req.stop.t)

\* ---------------------------------------------------------------- AI chat
\* The messages that exist: the rows not deleted.
Existing(ch) == {x \in 1 .. Len(ch.messages) : ~ch.messages[x].deleted}

\* The caller names a conversation of theirs in the workspace and a message of it.
NamesOwnMessage(ch, u, slug, c, m) ==
    /\ slug \in Workspaces
    /\ c \in 1 .. Len(ch.conversations)
    /\ ch.conversations[c].user = u
    /\ ch.conversations[c].workspace = slug
    /\ m \in Existing(ch)
    /\ ch.messages[m].conversation = c

\* C39: truncate(c, m) by the owner of c deletes m and every message of c
\* created at or after m, keeps the messages of c created before m and every
\* message of every other conversation, and answers deleted_count = the number
\* of messages removed; when c or m does not exist or is not the caller's it
\* answers NotFound (HTTP 404) and deletes nothing.
C39_TruncateDeletesFromMessage ==
    [][LET u == req'[1].user
           c == req'[1].conversation
           m == req'[1].message
           before == chat.messages
           after == chat'.messages
           removed == Existing(chat) \ Existing(chat') IN
       Answered("truncate")
       => IF NamesOwnMessage(chat, u, req'[1].slug, c, m)
          THEN /\ last'.status = 200
               /\ removed = {x \in Existing(chat) :
                                 /\ before[x].conversation = c
                                 /\ before[x].created_at >= before[m].created_at}
               /\ Existing(chat') \subseteq Existing(chat)
               /\ Len(after) = Len(before)
               /\ \A x \in Existing(chat') : after[x] = before[x]
               /\ chat'.conversations = chat.conversations
               /\ last'.body[1].deleted_count = Cardinality(removed)
          ELSE /\ last'.status = 404
               /\ last'.error = "NotFound"
               /\ chat' = chat]_vars

\* A truncate just removed the reply of one conversation, created after the
\* message it answers, which is kept, as are the two messages of the caller's
\* other conversation.
C39_Witness ==
    /\ last.op = "truncate"
    /\ last.status = 200
    /\ last.body[1].deleted_count = 1
    /\ Len(chat.messages) = 4
    /\ LET c == req[1].conversation
           m == req[1].message IN
       /\ chat.messages[m].deleted
       /\ \E x \in Existing(chat) :
             /\ chat.messages[x].conversation = c
             /\ chat.messages[x].created_at < chat.messages[m].created_at
       /\ Cardinality({x \in Existing(chat) : chat.messages[x].conversation # c}) = 2

\* C40: a send-message request answered with an error (no API key, unknown
\* conversation, failed LLM call, or any other refusal) leaves no conversation
\* and no message that was not there before the request.
C40_FailedSendPersistsNothing ==
    [][(Answered("send") /\ last'.status # 200)
       => /\ chat'.conversations = chat.conversations
          /\ chat'.messages = chat.messages]_vars

====
